---------------------------- MODULE Spec2Model ----------------------------
(***************************************************************************)
(* Model of schema_generator.py: the pipeline that parses the Pydantic     *)
(* record declarations of schemas.py into a registry and emits, for every  *)
(* record, a PHP class and, for every main record, a markdown document.    *)
(*                                                                         *)
(* Text is modelled as a sequence of one-character strings, so that the    *)
(* substring tests, replacements, regular-expression searches and case     *)
(* conversions of the source are computed as the source computes them.     *)
(* An emitted line is a record: k names the template (the f-string of one  *)
(* source line), a, b, c are the texts interpolated into it, and d is the  *)
(* list interpolated into it (constraints, the fields of an example        *)
(* object, or the example objects of an array).                            *)
(***************************************************************************)
EXTENDS Integers, Sequences, FiniteSets, TLC

(***************************************************************************)
(* Bounds of the model.                                                    *)
(***************************************************************************)
\* the largest number of annotated attributes in the varied class body
MaxFields == 2
\* how many times main() is run on the unchanged declaration source
MaxRuns == 2

(***************************************************************************)
(* Text primitives (Python str operations and the re module).              *)
(***************************************************************************)
\* Python's None; no text equals it, since every element of a text is one character
None == <<"<None>">>

LowerChars == <<"a","b","c","d","e","f","g","h","i","j","k","l","m","n","o","p","q","r","s","t","u","v","w","x","y","z">>
UpperChars == <<"A","B","C","D","E","F","G","H","I","J","K","L","M","N","O","P","Q","R","S","T","U","V","W","X","Y","Z">>
DigitChars == <<"0","1","2","3","4","5","6","7","8","9">>

Range(s) == {s[k] : k \in DOMAIN s}

\* the characters the regular expression class \w matches
WordChars == Range(LowerChars) \cup Range(UpperChars) \cup Range(DigitChars) \cup {"_"}

CharLower(ch) ==
  IF \E k \in DOMAIN UpperChars : UpperChars[k] = ch
  THEN LowerChars[CHOOSE k \in DOMAIN UpperChars : UpperChars[k] = ch]
  ELSE ch

CharUpper(ch) ==
  IF \E k \in DOMAIN LowerChars : LowerChars[k] = ch
  THEN UpperChars[CHOOSE k \in DOMAIN LowerChars : LowerChars[k] = ch]
  ELSE ch

\* str.lower()
Lower(s) == [k \in DOMAIN s |-> CharLower(s[k])]

\* str.capitalize(): first character upper case, the rest lower case
Capitalize(s) == [k \in DOMAIN s |-> IF k = 1 THEN CharUpper(s[k]) ELSE CharLower(s[k])]

\* sub occurs in s at position p
OccursAt(s, sub, p) ==
  /\ p >= 1
  /\ p + Len(sub) - 1 <= Len(s)
  /\ SubSeq(s, p, p + Len(sub) - 1) = sub

\* Python's  sub in s
Contains(s, sub) == \E p \in 1..(Len(s) - Len(sub) + 1) : OccursAt(s, sub, p)

\* str.startswith
StartsWith(s, sub) == OccursAt(s, sub, 1)

RECURSIVE ReplaceFrom(_, _, _, _)
ReplaceFrom(s, sub, rep, p) ==
  IF p > Len(s) THEN <<>>
  ELSE IF OccursAt(s, sub, p) THEN rep \o ReplaceFrom(s, sub, rep, p + Len(sub))
  ELSE <<s[p]>> \o ReplaceFrom(s, sub, rep, p + 1)

\* str.replace(sub, rep): every non-overlapping occurrence, left to right
Replace(s, sub, rep) == ReplaceFrom(s, sub, rep, 1)

RECURSIVE SplitFrom(_, _, _, _)
SplitFrom(s, sep, p, acc) ==
  IF p > Len(s) THEN <<acc>>
  ELSE IF s[p] = sep THEN <<acc>> \o SplitFrom(s, sep, p + 1, <<>>)
  ELSE SplitFrom(s, sep, p + 1, Append(acc, s[p]))

\* str.split(sep) for a one-character separator
Split(s, sep) == SplitFrom(s, sep, 1, <<>>)

RECURSIVE ConcatAll(_)
ConcatAll(ss) == IF ss = <<>> THEN <<>> ELSE Head(ss) \o ConcatAll(Tail(ss))

\* the last position of the longest run of \w characters starting at p (p - 1 when empty)
WordRunEnd(s, p) ==
  LET ends == {q \in (p - 1)..Len(s) : \A k \in p..q : s[k] \in WordChars}
  IN CHOOSE q \in ends : \A r \in ends : r <= q

\* the pattern  kw\[(\w+)\]  matches s at position p
WrappedAt(s, kw, p) ==
  /\ OccursAt(s, kw \o <<"[">>, p)
  /\ LET b == p + Len(kw) + 1
         e == WordRunEnd(s, b)
     IN e >= b /\ e + 1 <= Len(s) /\ s[e + 1] = "]"

\* group(1) of re.search over the alternatives kws, None when nothing matches
ReSearchWrapped(s, kws) ==
  LET hits == {p \in 1..Len(s) : \E kw \in kws : WrappedAt(s, kw, p)}
  IN IF hits = {} THEN None
     ELSE LET p == CHOOSE q \in hits : \A r \in hits : q <= r
              kw == CHOOSE w \in kws : WrappedAt(s, w, p)
              b == p + Len(kw) + 1
          IN SubSeq(s, b, WordRunEnd(s, b))

(***************************************************************************)
(* Literals of the source.                                                 *)
(***************************************************************************)
s_str == <<"s", "t", "r">>
s_int == <<"i", "n", "t">>
s_float == <<"f", "l", "o", "a", "t">>
s_bool == <<"b", "o", "o", "l">>
s_UUID == <<"U", "U", "I", "D">>
s_string == <<"s", "t", "r", "i", "n", "g">>
s_array == <<"a", "r", "r", "a", "y">>
s_CommentScore == <<"C", "o", "m", "m", "e", "n", "t", "S", "c", "o", "r", "e">>
s_SpamDetectionResult == <<"S", "p", "a", "m", "D", "e", "t", "e", "c", "t", "i", "o", "n", "R", "e", "s", "u", "l", "t">>
s_CommentRelevanceResult == <<"C", "o", "m", "m", "e", "n", "t", "R", "e", "l", "e", "v", "a", "n", "c", "e", "R", "e", "s", "u", "l", "t">>
s_DogwhistleResult == <<"D", "o", "g", "w", "h", "i", "s", "t", "l", "e", "R", "e", "s", "u", "l", "t">>
s_MegaCallResult == <<"M", "e", "g", "a", "C", "a", "l", "l", "R", "e", "s", "u", "l", "t">>
s_InitTopicResponse == <<"I", "n", "i", "t", "T", "o", "p", "i", "c", "R", "e", "s", "p", "o", "n", "s", "e">>
s_LogicalFallacy == <<"L", "o", "g", "i", "c", "a", "l", "F", "a", "l", "l", "a", "c", "y">>
s_ObjectionablePhrase == <<"O", "b", "j", "e", "c", "t", "i", "o", "n", "a", "b", "l", "e", "P", "h", "r", "a", "s", "e">>
s_NegativeTonePhrase == <<"N", "e", "g", "a", "t", "i", "v", "e", "T", "o", "n", "e", "P", "h", "r", "a", "s", "e">>
s_OnTopicResult == <<"O", "n", "T", "o", "p", "i", "c", "R", "e", "s", "u", "l", "t">>
s_BannedTopicsResult == <<"B", "a", "n", "n", "e", "d", "T", "o", "p", "i", "c", "s", "R", "e", "s", "u", "l", "t">>
s_DogwhistleDetection == <<"D", "o", "g", "w", "h", "i", "s", "t", "l", "e", "D", "e", "t", "e", "c", "t", "i", "o", "n">>
s_DogwhistleDetails == <<"D", "o", "g", "w", "h", "i", "s", "t", "l", "e", "D", "e", "t", "a", "i", "l", "s">>
s_List == <<"L", "i", "s", "t">>
s_Optional == <<"O", "p", "t", "i", "o", "n", "a", "l">>
s_model_config == <<"m", "o", "d", "e", "l", "_", "c", "o", "n", "f", "i", "g">>

\* 'List['  and  'Optional['
s_ListOpen == s_List \o <<"[">>
s_OptionalOpen == s_Optional \o <<"[">>

\* the PHP defaults of the hydration routine
php_false == <<"f", "a", "l", "s", "e">>
php_zero == <<"0">>
php_zero_float == <<"0", ".", "0">>
php_empty_string == <<"'", "'">>

\* the example literals of the wire view
ex_str == <<"\"", "s", "t", "r", "i", "n", "g", "\"">>
ex_int == <<"1">>
ex_float == <<"0", ".", "5">>
ex_bool == <<"t", "r", "u", "e">>
ex_UUID == <<"\"", "5", "5", "0", "e", "8", "4", "0", "0", "-", "e", "2", "9", "b", "-", "4", "1", "d", "4", "-", "a", "7", "1", "6", "-", "4", "4", "6", "6", "5", "5", "4", "4", "0", "0", "0", "0", "\"">>
ex_empty_obj == <<"{", "}">>
ex_str_list == <<"[", "\"", ".", ".", ".", "\"", ",", " ", "\"", ".", ".", ".", "\"", "]">>
ex_int_list == <<"[", "1", ",", " ", "2", "]">>
ex_float_list == <<"[", "0", ".", "5", ",", " ", "0", ".", "8", "]">>
ex_empty_list == <<"[", "]">>

\* an emitted line: template k with the texts a, b, c and the list d interpolated
Line(k, a, b, c, d) == [k |-> k, a |-> a, b |-> b, c |-> c, d |-> d]

(***************************************************************************)
(* FieldInfo and SchemaInfo.                                               *)
(***************************************************************************)
FieldInfo(name, type_hint, description, default, constraints) ==
  [name |-> name, type_hint |-> type_hint, description |-> description,
   default |-> default, constraints |-> constraints]

SchemaInfo(name, docstring, fields) ==
  [name |-> name, docstring |-> docstring, fields |-> fields]

\* FieldInfo.php_name: snake_case to camelCase
php_name(field) ==
  LET parts == Split(field.name, "_")
  IN parts[1] \o ConcatAll([k \in 1..(Len(parts) - 1) |-> Capitalize(parts[k + 1])])

\* the type_map of FieldInfo.php_type, in its iteration order
type_map == << <<s_str, s_string>>, <<s_int, s_int>>, <<s_float, s_float>>,
               <<s_bool, s_bool>>, <<s_UUID, s_string>> >>

\* the loop of php_type over type_map: the first key that occurs in type_clean
php_base_type(type_clean) ==
  LET hits == {k \in DOMAIN type_map : Contains(type_clean, type_map[k][1])}
  IN IF hits = {} THEN type_clean
     ELSE type_map[CHOOSE k \in hits : \A j \in hits : k <= j][2]

\* FieldInfo.php_type
php_type(field) ==
  IF Contains(field.type_hint, s_ListOpen) THEN s_array
  ELSE LET is_optional == Contains(field.type_hint, s_OptionalOpen)
           type_clean == Replace(Replace(field.type_hint, s_OptionalOpen, <<>>), <<"]">>, <<>>)
           base == php_base_type(type_clean)
       IN IF is_optional THEN <<"?">> \o base ELSE base

\* FieldInfo.json_name
json_name(field) == field.name

(***************************************************************************)
(* SchemaParser.  A declaration source is [syntax_ok, classes]; a class    *)
(* declaration is [name, bases, docstring, body]; a body item is         *)
(* [node, target, annotation, value]: node is the class of the statement   *)
(* (AnnAssign for an annotated attribute, Assign, FunctionDef), annotation *)
(* is the text ast.unparse gives and value is [call, args, keywords].      *)
(* classes lists the ClassDef nodes in the order ast.walk yields them, and *)
(* bases lists the bases that are plain names.                             *)
(***************************************************************************)
\* the description keyword of a Field() call, "" when there is none
FieldDescription(value) ==
  LET ks == {k \in DOMAIN value.keywords : value.keywords[k].arg = "description"}
  IN IF ks = {} THEN <<>> ELSE value.keywords[CHOOSE k \in ks : TRUE].value

IsConstraint(kw) == kw.arg \in {"ge", "le", "min_length", "max_length"}

\* the constraints dict of a Field() call, in keyword order
RECURSIVE ConstraintsOf(_)
ConstraintsOf(keywords) ==
  IF keywords = <<>> THEN <<>>
  ELSE (IF IsConstraint(Head(keywords))
        THEN <<[k |-> Head(keywords).arg, v |-> Head(keywords).value]>>
        ELSE <<>>) \o ConstraintsOf(Tail(keywords))

FieldConstraints(value) == ConstraintsOf(value.keywords)

\* the default of a Field() call: its first positional argument unless '...',
\* else the default_factory marker
FieldDefault(value) ==
  IF value.args # <<>> /\ value.args[1] # <<".", ".", ".">> THEN value.args[1]
  ELSE IF \E k \in DOMAIN value.keywords : value.keywords[k].arg = "default_factory"
       THEN <<"default_factory">>
       ELSE None

\* the None that _parse_field returns in place of a FieldInfo
NoField == [none |-> TRUE]

\* SchemaParser._parse_field; None for model_config
_parse_field(item) ==
  IF item.target = s_model_config THEN NoField
  ELSE IF item.value.call = "Field"
       THEN FieldInfo(item.target, item.annotation, FieldDescription(item.value),
                      FieldDefault(item.value), FieldConstraints(item.value))
       ELSE FieldInfo(item.target, item.annotation, <<>>, None, <<>>)

RECURSIVE ParseFields(_)
\* the loop of _parse_class over the annotated attributes of the body
ParseFields(body) ==
  IF body = <<>> THEN <<>>
  ELSE (IF Head(body).node = "AnnAssign" /\ _parse_field(Head(body)) # NoField
        THEN <<_parse_field(Head(body))>>
        ELSE <<>>)
       \o ParseFields(Tail(body))

\* SchemaParser._parse_class
_parse_class(node) == SchemaInfo(node.name, node.docstring, ParseFields(node.body))

\* IsBaseModelSubclass taking every class that has a base
IsBaseModelSubclass_any_base(node) == node.bases # <<>>

\* the test of parse_schemas: BaseModel is listed among the bases
IsBaseModelSubclass(node) == \E k \in DOMAIN node.bases : node.bases[k] = "BaseModel"

RECURSIVE ParseClasses(_)
ParseClasses(classes) ==
  IF classes = <<>> THEN <<>>
  ELSE (IF IsBaseModelSubclass(Head(classes)) THEN <<_parse_class(Head(classes))>> ELSE <<>>)
       \o ParseClasses(Tail(classes))

\* SchemaParser.parse_schemas
parse_schemas(src) == ParseClasses(src.classes)

(***************************************************************************)
(* The registry: schema_map = {s.name: s for s in schemas}.                *)
(***************************************************************************)
InSchemaMap(schemas, name) == \E k \in DOMAIN schemas : schemas[k].name = name

\* a later declaration of a name replaces an earlier one
SchemaMapGet(schemas, name) ==
  LET ks == {k \in DOMAIN schemas : schemas[k].name = name}
  IN schemas[CHOOSE k \in ks : \A j \in ks : j <= k]

(***************************************************************************)
(* PHPGenerator.                                                           *)
(***************************************************************************)
\* the class header: banner, namespace, docblock and class line
PhpHeader(schema) == <<Line("php_header", schema.name, schema.docstring, <<>>, <<>>)>>

\* the property block of one field
PhpProperty(field) ==
  <<Line("prop_doc", field.description, <<>>, <<>>, <<>>)>>
  \o (IF field.constraints # <<>>
      THEN <<Line("prop_constraints", <<>>, <<>>, <<>>, field.constraints)>>
      ELSE <<>>)
  \o <<Line("prop", php_type(field), php_name(field), <<>>, <<>>)>>

\* the branch of the constructor loop for a field whose php_type is 'array'
PhpAssignArray(schemas, field) ==
  IF Contains(field.type_hint, s_ListOpen)
  THEN LET inner_class == ReSearchWrapped(field.type_hint, {s_List})
       IN IF inner_class = None THEN <<>>
          ELSE IF InSchemaMap(schemas, inner_class)
               THEN <<Line("assign_array_map", php_name(field), inner_class, json_name(field), <<>>)>>
               ELSE <<Line("assign_array", php_name(field), <<>>, json_name(field), <<>>)>>
  ELSE <<Line("assign_array", php_name(field), <<>>, json_name(field), <<>>)>>

\* the branch for the scalar types
PhpAssignScalar(field) ==
  IF php_type(field) = s_bool
  THEN <<Line("assign_default", php_name(field), php_false, json_name(field), <<>>)>>
  ELSE IF php_type(field) = s_int
  THEN <<Line("assign_default", php_name(field), php_zero, json_name(field), <<>>)>>
  ELSE IF php_type(field) = s_float
  THEN <<Line("assign_floatval", php_name(field), php_zero_float, json_name(field), <<>>)>>
  ELSE <<Line("assign_default", php_name(field), php_empty_string, json_name(field), <<>>)>>

\* PhpAssignOptional with the registry lookup left out: the raw value or null
PhpAssignOptional_raw(schemas, field) ==
  LET inner_class == ReSearchWrapped(field.type_hint, {s_Optional})
  IN IF inner_class = None THEN <<>>
     ELSE <<Line("assign_or_null", php_name(field), <<>>, json_name(field), <<>>)>>

\* the branch for an Optional[...] type hint
PhpAssignOptional(schemas, field) ==
  LET inner_class == ReSearchWrapped(field.type_hint, {s_Optional})
  IN IF inner_class = None THEN <<>>
     ELSE IF InSchemaMap(schemas, inner_class)
          THEN <<Line("assign_isset_new", php_name(field), inner_class, json_name(field), <<>>)>>
          ELSE <<Line("assign_or_null", php_name(field), <<>>, json_name(field), <<>>)>>

\* the branch for a required nested object
PhpAssignRequired(schemas, field) ==
  IF InSchemaMap(schemas, php_type(field))
  THEN <<Line("assign_new", php_name(field), php_type(field), json_name(field), <<>>)>>
  ELSE <<Line("assign_raw", php_name(field), <<>>, json_name(field), <<>>)>>

\* one pass of the constructor loop: the assignment lines emitted for a field
PhpAssign(schemas, field) ==
  IF php_type(field) = s_array THEN PhpAssignArray(schemas, field)
  ELSE IF php_type(field) \in {s_int, s_float, s_bool, s_string} THEN PhpAssignScalar(field)
  ELSE IF Contains(field.type_hint, s_OptionalOpen) THEN PhpAssignOptional(schemas, field)
  ELSE PhpAssignRequired(schemas, field)

\* PHPGenerator.generate_class
generate_class(schemas, schema) ==
  PhpHeader(schema)
  \o ConcatAll([k \in DOMAIN schema.fields |-> PhpProperty(schema.fields[k])])
  \o <<Line("ctor_open", schema.name, <<>>, <<>>, <<>>)>>
  \o ConcatAll([k \in DOMAIN schema.fields |-> PhpAssign(schemas, schema.fields[k])])
  \o <<Line("ctor_close", <<>>, <<>>, <<>>, <<>>)>>

(***************************************************************************)
(* MarkdownGenerator: configuration and type helpers.                      *)
(***************************************************************************)
s_language == <<"l", "a", "n", "g", "u", "a", "g", "e">>
s_python == <<"p", "y", "t", "h", "o", "n">>
s_php == <<"p", "h", "p">>
s_rest == <<"r", "e", "s", "t">>
s_Fields == <<"F", "i", "e", "l", "d", "s">>
s_SubTypes == <<"S", "u", "b", "-", "t", "y", "p", "e", "s">>

\* MarkdownGenerator.INLINE_SUBTYPES: parent, then its inline sub-types
INLINE_SUBTYPES ==
  << <<s_CommentScore, <<s_LogicalFallacy, s_ObjectionablePhrase, s_NegativeTonePhrase>> >>,
     <<s_CommentRelevanceResult, <<s_OnTopicResult, s_BannedTopicsResult>> >>,
     <<s_DogwhistleResult, <<s_DogwhistleDetection, s_DogwhistleDetails>> >> >>

\* MarkdownGenerator.MAIN_SCHEMAS
MAIN_SCHEMAS ==
  <<s_CommentScore, s_SpamDetectionResult, s_CommentRelevanceResult,
    s_DogwhistleResult, s_MegaCallResult, s_InitTopicResponse>>

\* current_schema in self.INLINE_SUBTYPES
HasInlineSubtypes(name) == \E k \in DOMAIN INLINE_SUBTYPES : INLINE_SUBTYPES[k][1] = name

\* self.INLINE_SUBTYPES[name]
InlineSubtypesOf(name) ==
  INLINE_SUBTYPES[CHOOSE k \in DOMAIN INLINE_SUBTYPES : INLINE_SUBTYPES[k][1] = name][2]

\* type_name in self.subtype_parent (the reverse map built by __init__)
HasSubtypeParent(type_name) ==
  \E k \in DOMAIN INLINE_SUBTYPES : type_name \in Range(INLINE_SUBTYPES[k][2])

\* self.subtype_parent[type_name]: the last parent that lists it
subtype_parent(type_name) ==
  LET ks == {k \in DOMAIN INLINE_SUBTYPES : type_name \in Range(INLINE_SUBTYPES[k][2])}
  IN INLINE_SUBTYPES[CHOOSE k \in ks : \A j \in ks : j <= k][1]

\* MarkdownGenerator._get_inner_type
_get_inner_type(type_hint) == ReSearchWrapped(type_hint, {s_List, s_Optional})

\* _get_type_link with the inline-sub-type test made last instead of first
_get_type_link_parent_first(schemas, type_name, current_schema) ==
  IF ~InSchemaMap(schemas, type_name) THEN None
  ELSE IF type_name \in Range(MAIN_SCHEMAS)
       THEN <<".", "/">> \o type_name
  ELSE IF HasSubtypeParent(type_name)
       THEN <<".", "/">> \o subtype_parent(type_name) \o <<"#">> \o Lower(type_name)
  ELSE IF HasInlineSubtypes(current_schema)
          /\ type_name \in Range(InlineSubtypesOf(current_schema))
       THEN <<"#">> \o Lower(type_name)
  ELSE None

\* _get_type_link linking a sub-type of another page to that page without the anchor
_get_type_link_no_anchor(schemas, type_name, current_schema) ==
  IF ~InSchemaMap(schemas, type_name) THEN None
  ELSE IF HasInlineSubtypes(current_schema)
          /\ type_name \in Range(InlineSubtypesOf(current_schema))
       THEN <<"#">> \o Lower(type_name)
  ELSE IF type_name \in Range(MAIN_SCHEMAS)
       THEN <<".", "/">> \o type_name
  ELSE IF HasSubtypeParent(type_name)
       THEN <<".", "/">> \o subtype_parent(type_name)
  ELSE None

\* MarkdownGenerator._get_type_link; None for no link
_get_type_link(schemas, type_name, current_schema) ==
  IF ~InSchemaMap(schemas, type_name) THEN None
  ELSE IF HasInlineSubtypes(current_schema)
          /\ type_name \in Range(InlineSubtypesOf(current_schema))
       THEN <<"#">> \o Lower(type_name)
  ELSE IF type_name \in Range(MAIN_SCHEMAS)
       THEN <<".", "/">> \o type_name
  ELSE IF HasSubtypeParent(type_name)
       THEN <<".", "/">> \o subtype_parent(type_name) \o <<"#">> \o Lower(type_name)
  ELSE None

\* MarkdownGenerator._get_json_example
_get_json_example(type_hint) ==
  IF type_hint = s_str THEN ex_str
  ELSE IF type_hint = s_int THEN ex_int
  ELSE IF type_hint = s_float THEN ex_float
  ELSE IF type_hint = s_bool THEN ex_bool
  ELSE IF type_hint = s_UUID THEN ex_UUID
  ELSE ex_empty_obj

\* Python's  inner or 'str'
OrStr(inner) == IF inner = None THEN s_str ELSE inner

\* constraints.get(key), None when absent
ConstraintGet(field, key) ==
  LET ks == {k \in DOMAIN field.constraints : field.constraints[k].k = key}
  IN IF ks = {} THEN None ELSE field.constraints[CHOOSE k \in ks : TRUE].v

\* the range comment of a field constrained by both ge and le, as the list d of a line
RangeComment(field) ==
  IF ConstraintGet(field, "ge") # None /\ ConstraintGet(field, "le") # None
  THEN <<[k |-> "ge", v |-> ConstraintGet(field, "ge")],
         [k |-> "le", v |-> ConstraintGet(field, "le")]>>
  ELSE <<>>

\* the type_map of the PHP display: str, int, float, bool
php_display_type(name) == IF name = s_str THEN s_string ELSE name

\* MarkdownGenerator._format_php_type
_format_php_type(field) ==
  LET inner == _get_inner_type(field.type_hint)
  IN IF Contains(field.type_hint, s_ListOpen)
     THEN (IF inner # None THEN inner \o <<"[", "]">> ELSE s_array)
     ELSE IF Contains(field.type_hint, s_OptionalOpen) /\ inner # None
     THEN <<"?">> \o php_display_type(inner)
     ELSE php_display_type(field.type_hint)

\* MarkdownGenerator._format_python_type: the type text and the range comment
_format_python_type(field) ==
  IF RangeComment(field) # <<>>
  THEN Replace(Replace(field.type_hint, s_OptionalOpen, <<>>), <<"]">>, <<>>)
  ELSE field.type_hint

(***************************************************************************)
(* MarkdownGenerator: example values.                                      *)
(***************************************************************************)
\* MarkdownGenerator._get_json_field_example
_get_json_field_example(schemas, field) ==
  LET inner == _get_inner_type(field.type_hint)
  IN IF Contains(field.type_hint, s_ListOpen)
     THEN (IF inner = s_str THEN ex_str_list
           ELSE IF inner = s_int THEN ex_int_list
           ELSE IF inner = s_float THEN ex_float_list
           ELSE IF InSchemaMap(schemas, inner) THEN <<"[">> \o inner \o <<",", " ", ".", ".", ".", "]">>
           ELSE ex_empty_list)
     ELSE IF Contains(field.type_hint, s_OptionalOpen)
     THEN (IF InSchemaMap(schemas, inner) THEN inner ELSE _get_json_example(OrStr(inner)))
     ELSE IF InSchemaMap(schemas, field.type_hint) THEN field.type_hint
     ELSE _get_json_example(field.type_hint)

\* _build_json_object_example descending into the record a member refers to
_build_json_object_example_descending(schemas, schema) ==
  [k \in DOMAIN schema.fields |->
     LET inner == _get_inner_type(schema.fields[k].type_hint)
         referred == IF inner # None THEN inner ELSE schema.fields[k].type_hint
     IN [k |-> schema.fields[k].name,
         v |-> IF InSchemaMap(schemas, referred)
               THEN <<"{">>
                    \o ConcatAll([m \in DOMAIN SchemaMapGet(schemas, referred).fields |->
                                    SchemaMapGet(schemas, referred).fields[m].name])
                    \o <<"}">>
               ELSE _get_json_field_example(schemas, schema.fields[k])]]

\* MarkdownGenerator._build_json_object_example: one member per field, in order
_build_json_object_example(schemas, schema) ==
  [k \in DOMAIN schema.fields |->
     [k |-> schema.fields[k].name, v |-> _get_json_field_example(schemas, schema.fields[k])]]

\* MarkdownGenerator._get_json_example_value (sub-type documentation)
_get_json_example_value(field) ==
  LET inner == _get_inner_type(field.type_hint)
  IN IF Contains(field.type_hint, s_ListOpen)
     THEN (IF inner = s_str THEN ex_str_list
           ELSE IF inner = s_int THEN ex_int_list
           ELSE IF inner = s_float THEN ex_float_list
           ELSE ex_empty_list)
     ELSE IF Contains(field.type_hint, s_OptionalOpen)
     THEN _get_json_example(OrStr(inner))
     ELSE _get_json_example(field.type_hint)

(***************************************************************************)
(* MarkdownGenerator: the three views of a field.                          *)
(***************************************************************************)
\* MarkdownGenerator._format_python_field_display
_format_python_field_display(schemas, field, current_schema) ==
  LET inner == _get_inner_type(field.type_hint)
      link_target == IF inner # None THEN _get_type_link(schemas, inner, current_schema) ELSE None
      direct_link == _get_type_link(schemas, field.type_hint, current_schema)
  IN IF link_target # None /\ Contains(field.type_hint, s_ListOpen)
     THEN Line("py_list_link", field.name, inner, link_target, RangeComment(field))
     ELSE IF link_target # None /\ Contains(field.type_hint, s_OptionalOpen)
     THEN Line("py_optional_link", field.name, inner, link_target, RangeComment(field))
     ELSE IF direct_link # None
     THEN Line("py_direct_link", field.name, field.type_hint, direct_link, RangeComment(field))
     ELSE Line("py_plain", field.name, field.type_hint, None, RangeComment(field))

\* MarkdownGenerator._format_php_field_display
_format_php_field_display(schemas, field, current_schema) ==
  LET inner == _get_inner_type(field.type_hint)
      link_target == IF inner # None THEN _get_type_link(schemas, inner, current_schema) ELSE None
      direct_link == _get_type_link(schemas, field.type_hint, current_schema)
  IN IF link_target # None /\ Contains(field.type_hint, s_ListOpen)
     THEN Line("php_list_link", php_name(field), inner, link_target, <<>>)
     ELSE IF link_target # None /\ Contains(field.type_hint, s_OptionalOpen)
     THEN Line("php_optional_link", php_name(field), inner, link_target, <<>>)
     ELSE IF direct_link # None
     THEN Line("php_direct_link", php_name(field), field.type_hint, direct_link, <<>>)
     ELSE Line("php_plain", php_name(field), _format_php_type(field), None, <<>>)

s_null == <<"n", "u", "l", "l">>

\* JsonNestedDisplay showing null, not the example object, for an Optional record
JsonNestedDisplay_null(schemas, field, inner, current_schema) ==
  LET link_target == _get_type_link(schemas, inner, current_schema)
      inline_obj == _build_json_object_example(schemas, SchemaMapGet(schemas, inner))
  IN IF Contains(field.type_hint, s_ListOpen)
     THEN Line("json_list_of_objects", json_name(field), inner, link_target, <<inline_obj>>)
     ELSE IF Contains(field.type_hint, s_OptionalOpen)
     THEN Line("json_value", json_name(field), s_null, None, <<>>)
     ELSE Line("json_object", json_name(field), inner, link_target, inline_obj)

\* JsonNestedDisplay naming the record in the array, as the summary form does: [R, ...]
JsonNestedDisplay_bare_list(schemas, field, inner, current_schema) ==
  LET link_target == _get_type_link(schemas, inner, current_schema)
      inline_obj == _build_json_object_example(schemas, SchemaMapGet(schemas, inner))
  IN IF Contains(field.type_hint, s_ListOpen)
     THEN Line("json_list_of_objects", json_name(field), inner, link_target, <<>>)
     ELSE IF Contains(field.type_hint, s_OptionalOpen)
     THEN Line("json_object_or_null", json_name(field), inner, link_target, inline_obj)
     ELSE Line("json_object", json_name(field), inner, link_target, inline_obj)

\* the branch of _format_json_field_display for a wrapped record of the registry;
\* the template json_list_of_objects is  "a": [d1, d2, ..., ...]  : the example
\* objects of d, then the ellipsis marker, and d holds the one object of line 688
JsonNestedDisplay(schemas, field, inner, current_schema) ==
  LET link_target == _get_type_link(schemas, inner, current_schema)
      inline_obj == _build_json_object_example(schemas, SchemaMapGet(schemas, inner))
  IN IF Contains(field.type_hint, s_ListOpen)
     THEN Line("json_list_of_objects", json_name(field), inner, link_target, <<inline_obj>>)
     ELSE IF Contains(field.type_hint, s_OptionalOpen)
     THEN Line("json_object_or_null", json_name(field), inner, link_target, inline_obj)
     ELSE Line("json_object", json_name(field), inner, link_target, inline_obj)

\* the branch for a direct reference to a record of the registry
JsonDirectDisplay(schemas, field, current_schema) ==
  Line("json_object", json_name(field), field.type_hint,
       _get_type_link(schemas, field.type_hint, current_schema),
       _build_json_object_example(schemas, SchemaMapGet(schemas, field.type_hint)))

\* JsonSimpleDisplay giving a list the example of its inner type
JsonSimpleDisplay_inner_example(field, inner) ==
  IF Contains(field.type_hint, s_ListOpen)
  THEN Line("json_value", json_name(field), _get_json_example(OrStr(inner)), None, <<>>)
  ELSE IF Contains(field.type_hint, s_OptionalOpen)
  THEN Line("json_value_or_null", json_name(field), _get_json_example(OrStr(inner)), None, <<>>)
  ELSE Line("json_value", json_name(field), _get_json_example(field.type_hint), None, <<>>)

\* the branch for the simple types
JsonSimpleDisplay(field, inner) ==
  IF Contains(field.type_hint, s_ListOpen)
  THEN (IF inner = s_str
        THEN Line("json_value", json_name(field), ex_str_list, None, <<>>)
        ELSE Line("json_value", json_name(field), ex_empty_list, None, <<>>))
  ELSE IF Contains(field.type_hint, s_OptionalOpen)
  THEN Line("json_value_or_null", json_name(field), _get_json_example(OrStr(inner)), None, <<>>)
  ELSE Line("json_value", json_name(field), _get_json_example(field.type_hint), None, <<>>)

\* MarkdownGenerator._format_json_field_display
_format_json_field_display(schemas, field, current_schema) ==
  LET inner == _get_inner_type(field.type_hint)
  IN IF inner # None /\ InSchemaMap(schemas, inner)
     THEN JsonNestedDisplay(schemas, field, inner, current_schema)
     ELSE IF InSchemaMap(schemas, field.type_hint)
     THEN JsonDirectDisplay(schemas, field, current_schema)
     ELSE JsonSimpleDisplay(field, inner)

(***************************************************************************)
(* MarkdownGenerator: documents.                                           *)
(***************************************************************************)
Blank == Line("blank", <<>>, <<>>, <<>>, <<>>)
TabsOpen == Line("tabs_open", s_language, <<>>, <<>>, <<>>)
TabsClose == Line("tabs_close", <<>>, <<>>, <<>>, <<>>)
TabItemOpen(value) == Line("tabitem_open", value, <<>>, <<>>, <<>>)
TabItemClose == Line("tabitem_close", <<>>, <<>>, <<>>, <<>>)

\* _generate_field_doc with the JSON tab item left out
_generate_field_doc_two_tabs(schemas, field, current_schema) ==
  <<Line("h3", field.name, <<>>, <<>>, <<>>), Blank,
    Line("text", field.description, <<>>, <<>>, <<>>), Blank>>
  \o <<TabsOpen,
       TabItemOpen(s_python), Blank,
       _format_python_field_display(schemas, field, current_schema), Blank, TabItemClose,
       TabItemOpen(s_php), Blank,
       _format_php_field_display(schemas, field, current_schema), Blank, TabItemClose,
       TabsClose, Blank>>

\* MarkdownGenerator._generate_field_doc
_generate_field_doc(schemas, field, current_schema) ==
  <<Line("h3", field.name, <<>>, <<>>, <<>>), Blank,
    Line("text", field.description, <<>>, <<>>, <<>>), Blank>>
  \o (IF field.constraints # <<>>
      THEN <<Line("constraints", <<>>, <<>>, <<>>, field.constraints), Blank>>
      ELSE <<>>)
  \o <<TabsOpen,
       TabItemOpen(s_python), Blank,
       _format_python_field_display(schemas, field, current_schema), Blank, TabItemClose,
       TabItemOpen(s_php), Blank,
       _format_php_field_display(schemas, field, current_schema), Blank, TabItemClose,
       TabItemOpen(s_rest), Blank,
       _format_json_field_display(schemas, field, current_schema), Blank, TabItemClose,
       TabsClose, Blank>>

\* MarkdownGenerator._generate_subtype_doc
_generate_subtype_doc(schema) ==
  <<Line("h3", schema.name, <<>>, <<>>, <<>>), Blank,
    Line("text", schema.docstring, <<>>, <<>>, <<>>), Blank,
    TabsOpen,
    TabItemOpen(s_python), Blank, Line("table_head", <<>>, <<>>, <<>>, <<>>)>>
  \o [k \in DOMAIN schema.fields |->
        Line("table_row", schema.fields[k].name, _format_python_type(schema.fields[k]),
             schema.fields[k].description, RangeComment(schema.fields[k]))]
  \o <<Blank, TabItemClose,
       TabItemOpen(s_php), Blank, Line("table_head", <<>>, <<>>, <<>>, <<>>)>>
  \o [k \in DOMAIN schema.fields |->
        Line("table_row", php_name(schema.fields[k]), _format_php_type(schema.fields[k]),
             schema.fields[k].description, <<>>)]
  \o <<Blank, TabItemClose,
       TabItemOpen(s_rest), Blank,
       Line("json_block", <<>>, <<>>, <<>>,
            [k \in DOMAIN schema.fields |->
               [k |-> schema.fields[k].name, v |-> _get_json_example_value(schema.fields[k])]]),
       Blank, TabItemClose,
       TabsClose, Blank>>

\* c is less than d in code point order, for the characters of identifiers
CodeOrder == DigitChars \o UpperChars \o <<"_">> \o LowerChars
CharRank(ch) == CHOOSE k \in DOMAIN CodeOrder : CodeOrder[k] = ch

\* Python's  a < b  on str
TextLess(a, b) ==
  \E p \in 1..(Len(b)) :
     /\ \A q \in 1..(p - 1) : q <= Len(a) /\ a[q] = b[q]
     /\ (p > Len(a) \/ (p - 1 < Len(a) /\ CharRank(a[p]) < CharRank(b[p])))

RECURSIVE sorted(_)
\* sorted() of a set of texts
sorted(S) ==
  IF S = {} THEN <<>>
  ELSE LET m == CHOOSE x \in S : \A y \in S \ {x} : TextLess(x, y)
       IN <<m>> \o sorted(S \ {m})

\* the types whose imports a document shows: the record and the wrapped records it uses
DocImports(schemas, schema) ==
  {schema.name} \cup
  {_get_inner_type(schema.fields[k].type_hint) : k \in
     {j \in DOMAIN schema.fields :
        /\ _get_inner_type(schema.fields[j].type_hint) # None
        /\ InSchemaMap(schemas, _get_inner_type(schema.fields[j].type_hint))}}

\* MarkdownGenerator._generate_imports_section
_generate_imports_section(python_imports, php_imports) ==
  <<TabsOpen,
    TabItemOpen(s_python), Blank,
    Line("python_import", <<>>, <<>>, <<>>, sorted(python_imports)), Blank, TabItemClose,
    TabItemOpen(s_php), Blank,
    Line("php_use", <<>>, <<>>, <<>>, sorted(php_imports)), Blank, TabItemClose,
    TabItemOpen(s_rest), Blank,
    Line("text_json_objects", <<>>, <<>>, <<>>, <<>>), Blank, TabItemClose,
    TabsClose>>

\* the inline sub-type sections of generate_doc
SubtypeDocs(schemas, schema) ==
  IF HasInlineSubtypes(schema.name)
  THEN <<Line("h2", s_SubTypes, <<>>, <<>>, <<>>), Blank>>
       \o ConcatAll([k \in DOMAIN InlineSubtypesOf(schema.name) |->
            IF InSchemaMap(schemas, InlineSubtypesOf(schema.name)[k])
            THEN _generate_subtype_doc(SchemaMapGet(schemas, InlineSubtypesOf(schema.name)[k]))
            ELSE <<>>])
  ELSE <<>>

\* MarkdownGenerator.generate_doc (sidebar_position = 1)
generate_doc(schemas, schema) ==
  <<Line("front_matter", <<"1">>, <<>>, <<>>, <<>>), Blank,
    Line("import_components", <<>>, <<>>, <<>>, <<>>), Blank,
    Line("h1", schema.name, <<>>, <<>>, <<>>), Blank,
    Line("text", schema.docstring, <<>>, <<>>, <<>>), Blank>>
  \o _generate_imports_section(DocImports(schemas, schema), DocImports(schemas, schema))
  \o <<Blank, Line("h2", s_Fields, <<>>, <<>>, <<>>), Blank>>
  \o ConcatAll([k \in DOMAIN schema.fields |->
                  _generate_field_doc(schemas, schema.fields[k], schema.name)])
  \o SubtypeDocs(schemas, schema)

(***************************************************************************)
(* The declaration sources the model runs the pipeline on.                 *)
(***************************************************************************)
s_Point == <<"P", "o", "i", "n", "t">>
s_Widget == <<"W", "i", "d", "g", "e", "t">>
s_Box == <<"B", "o", "x">>
s_DictStrAny == <<"D", "i", "c", "t", "[", "s", "t", "r", ",", " ", "A", "n", "y", "]">>
s_x == <<"x">>
s_y == <<"y">>
s_corner == <<"c", "o", "r", "n", "e", "r">>
s_logical_fallacies == <<"l", "o", "g", "i", "c", "a", "l", "_", "f", "a", "l", "l", "a", "c", "i", "e", "s">>
s_top_score == <<"t", "o", "p", "_", "s", "c", "o", "r", "e">>
s_name == <<"n", "a", "m", "e">>
s_doc == <<"d", "o", "c">>
s_Ellipsis == <<".", ".", ".">>
s_None == <<"N", "o", "n", "e">>

ListOf(t) == s_ListOpen \o t \o <<"]">>
OptionalOf(t) == s_OptionalOpen \o t \o <<"]">>

\* the names a type hint may mention: primitives, records, and a name never extracted
TypeNames ==
  {s_str, s_int, s_float, s_bool, s_Point, s_LogicalFallacy, s_CommentScore, s_Widget}

\* the type hints of the first attribute of the varied class
Hints ==
  TypeNames \cup {ListOf(t) : t \in TypeNames} \cup {OptionalOf(t) : t \in TypeNames}
  \cup {s_UUID, OptionalOf(s_DictStrAny), ListOf(s_DictStrAny), OptionalOf(ListOf(s_str))}

\* the type hints of its later attributes
LaterHints == {s_int, OptionalOf(s_Point), ListOf(s_LogicalFallacy), OptionalOf(s_DictStrAny)}

\* the attribute names of the varied class, by position
FieldTargets == <<s_corner, s_logical_fallacies, s_top_score, s_x>>

NoValue == [call |-> "none", args |-> <<>>, keywords |-> <<>>]

\* the initializer written for an attribute of a given annotation
ValueFor(annotation) ==
  IF annotation = s_float THEN NoValue
  ELSE IF annotation = s_int
  THEN [call |-> "Field", args |-> <<s_Ellipsis>>,
        keywords |-> <<[arg |-> "description", value |-> s_doc],
                       [arg |-> "ge", value |-> <<"1">>], [arg |-> "le", value |-> <<"5">>]>>]
  ELSE IF Contains(annotation, s_OptionalOpen)
  THEN [call |-> "Field", args |-> <<s_None>>,
        keywords |-> <<[arg |-> "description", value |-> s_doc]>>]
  ELSE [call |-> "Field", args |-> <<s_Ellipsis>>,
        keywords |-> <<[arg |-> "description", value |-> s_doc]>>]

AnnAssign(target, annotation) ==
  [node |-> "AnnAssign", target |-> target, annotation |-> annotation,
   value |-> ValueFor(annotation)]

s_ConfigDict == <<"C", "o", "n", "f", "i", "g", "D", "i", "c", "t">>
s_Pixel == <<"P", "i", "x", "e", "l">>
s_is_valid == <<"i", "s", "_", "v", "a", "l", "i", "d">>

\* the configuration block  model_config = ConfigDict(frozen=True)
ConfigAssign ==
  [node |-> "Assign", target |-> s_model_config, annotation |-> <<>>,
   value |-> [call |-> "ConfigDict", args |-> <<>>, keywords |-> <<>>]]

\* the configuration block written with an annotation
ConfigAnnAssign ==
  [node |-> "AnnAssign", target |-> s_model_config, annotation |-> s_ConfigDict,
   value |-> [call |-> "ConfigDict", args |-> <<>>, keywords |-> <<>>]]

\* a computed accessor: a method decorated with @property
PropertyDef ==
  [node |-> "FunctionDef", target |-> s_is_valid, annotation |-> <<>>, value |-> NoValue]

ClassDef(name, bases, body) ==
  [name |-> name, bases |-> bases, docstring |-> s_doc, body |-> body]

\* the bodies of the varied class: up to MaxFields attributes
RECURSIVE Bodies(_)
Bodies(n) ==
  IF n = 0 THEN {<<>>}
  ELSE Bodies(n - 1) \cup
       {Append(b, AnnAssign(FieldTargets[n], h)) :
          b \in {c \in Bodies(n - 1) : Len(c) = n - 1},
          h \in (IF n = 1 THEN Hints ELSE LaterHints)}

PointClass ==
  ClassDef(s_Point, <<"BaseModel">>,
           <<ConfigAssign, AnnAssign(s_x, s_int), PropertyDef, AnnAssign(s_y, s_int)>>)

LogicalFallacyClass ==
  ClassDef(s_LogicalFallacy, <<"BaseModel">>,
           <<AnnAssign(s_name, s_str), ConfigAnnAssign, AnnAssign(s_top_score, s_float),
             AnnAssign(s_corner, OptionalOf(s_Point))>>)

\* a declaration that is not a BaseModel subclass
WidgetClass == ClassDef(s_Widget, <<"Enum">>, <<AnnAssign(s_name, s_str)>>)

\* a declaration that derives from an extracted record
PixelClass == ClassDef(s_Pixel, <<"Point">>, <<AnnAssign(s_name, s_str)>>)

\* the declarations that follow the varied class
Helpers ==
  {<<>>, <<PointClass>>, <<PointClass, WidgetClass, LogicalFallacyClass, PixelClass>>}

Sources ==
  {[syntax_ok |-> TRUE, classes |-> <<ClassDef(n, <<"BaseModel">>, b)>> \o hs] :
     n \in {s_CommentScore, s_SpamDetectionResult, s_Box}, b \in Bodies(MaxFields),
     hs \in Helpers}
  \cup {[syntax_ok |-> FALSE, classes |-> <<>>]}

(***************************************************************************)
(* main().                                                                 *)
(***************************************************************************)
VARIABLES
  source,     \* schemas.py
  run,        \* the number of the current run of main()
  pc,         \* where main() is: start, mkphp, php, docs, done, aborted
  schemas,    \* the list parse_schemas returned
  i,          \* the position of the two for-loops over schemas
  dirs,       \* the output directories that exist
  php_files,  \* the files of php_output_dir: record name -> lines
  doc_files,  \* the files of docs_output_dir: record name -> lines
  call,       \* a call of one function of the generator: its name and arguments
  ret,        \* whether that call has returned, and the value it returned
  build,      \* a run of the documentation-build command, see below
  pending     \* the loop passes still to make, when their order is left open

\* the variables of main() of schema_generator.py
main_vars == <<source, run, pc, schemas, i, dirs, php_files, doc_files>>

\* the variables of a single function call
unit_vars == <<call, ret>>

vars == <<main_vars, unit_vars, build, pending>>

NoFiles == [n \in {} |-> <<>>]

\* doc_schemas of main()
doc_schemas ==
  <<s_CommentScore, s_SpamDetectionResult, s_CommentRelevanceResult,
    s_DogwhistleResult, s_MegaCallResult, s_InitTopicResponse>>

\* write_file opening the file in append mode
write_file_append(files, name, content) ==
  [n \in DOMAIN files \cup {name} |->
     IF n = name THEN (IF name \in DOMAIN files THEN files[name] ELSE <<>>) \o content
     ELSE files[n]]

\* open(output_file, 'w'); f.write(content)
write_file(files, name, content) ==
  [n \in DOMAIN files \cup {name} |-> IF n = name THEN content ELSE files[n]]

\* no function call is being followed
NoCall == [fn |-> "none"]
NotReturned == [done |-> FALSE, value |-> None]

\* no documentation build is being followed
NoBuild == [pc |-> "none"]

\* the loops of main() run in the order of the list
NoPending == [php |-> {}, docs |-> {}]

Init ==
  /\ source \in Sources
  /\ run = 1
  /\ pc = "start"
  /\ schemas = <<>>
  /\ i = 1
  /\ dirs = {}
  /\ php_files = NoFiles
  /\ doc_files = NoFiles
  /\ call = NoCall
  /\ ret = NotReturned
  /\ build = NoBuild
  /\ pending = NoPending

\* SchemaParser(schema_file) and parse_schemas()
Parse ==
  /\ pc = "start"
  /\ source.syntax_ok
  /\ schemas' = parse_schemas(source)
  /\ pc' = "mkphp"
  /\ UNCHANGED <<unit_vars, build, pending, source, run, i, dirs, php_files, doc_files>>

\* ParseError with main() creating php_output_dir before it parses
ParseError_after_mkdir ==
  /\ pc = "start"
  /\ ~source.syntax_ok
  /\ dirs' = dirs \cup {"php"}
  /\ pc' = "aborted"
  /\ UNCHANGED <<unit_vars, build, pending, source, run, schemas, i, php_files, doc_files>>

\* ast.parse raises SyntaxError: main() ends with the exception
ParseError ==
  /\ pc = "start"
  /\ ~source.syntax_ok
  /\ pc' = "aborted"
  /\ UNCHANGED <<unit_vars, build, pending, source, run, schemas, i, dirs, php_files, doc_files>>

\* php_output_dir.mkdir and the PHPGenerator
MkdirPhp ==
  /\ pc = "mkphp"
  /\ dirs' = dirs \cup {"php"}
  /\ i' = 1
  /\ pc' = "php"
  /\ UNCHANGED <<unit_vars, build, pending, source, run, schemas, php_files, doc_files>>

\* one pass of the loop that writes the PHP classes
WritePhp ==
  /\ pc = "php"
  /\ i <= Len(schemas)
  /\ php_files' = write_file(php_files, schemas[i].name, generate_class(schemas, schemas[i]))
  /\ i' = i + 1
  /\ UNCHANGED <<unit_vars, build, pending, source, run, pc, schemas, dirs, doc_files>>

\* docs_output_dir.mkdir and the MarkdownGenerator
MkdirDocs ==
  /\ pc = "php"
  /\ i > Len(schemas)
  /\ dirs' = dirs \cup {"docs"}
  /\ i' = 1
  /\ pc' = "docs"
  /\ UNCHANGED <<unit_vars, build, pending, source, run, schemas, php_files, doc_files>>

\* one pass of the loop that writes the documents: a main schema
WriteDoc ==
  /\ pc = "docs"
  /\ i <= Len(schemas)
  /\ schemas[i].name \in Range(doc_schemas)
  /\ doc_files' = write_file(doc_files, schemas[i].name, generate_doc(schemas, schemas[i]))
  /\ i' = i + 1
  /\ UNCHANGED <<unit_vars, build, pending, source, run, pc, schemas, dirs, php_files>>

\* one pass of the loop that writes the documents: not a main schema
SkipDoc ==
  /\ pc = "docs"
  /\ i <= Len(schemas)
  /\ schemas[i].name \notin Range(doc_schemas)
  /\ i' = i + 1
  /\ UNCHANGED <<unit_vars, build, pending, source, run, pc, schemas, dirs, php_files, doc_files>>

\* the end of main()
Finish ==
  /\ pc = "docs"
  /\ i > Len(schemas)
  /\ pc' = "done"
  /\ UNCHANGED <<unit_vars, build, pending, source, run, schemas, i, dirs, php_files, doc_files>>

\* main() is run again on the unchanged source; the files of the last run are still there
Rerun ==
  /\ pc = "done"
  /\ run < MaxRuns
  /\ run' = run + 1
  /\ pc' = "start"
  /\ schemas' = <<>>
  /\ i' = 1
  /\ UNCHANGED <<unit_vars, build, pending, source, dirs, php_files, doc_files>>

\* main() is run again after schemas.py was edited into a file that does not parse
RerunEdited ==
  /\ pc = "done"
  /\ run < MaxRuns
  /\ run' = run + 1
  /\ pc' = "start"
  /\ source' = [syntax_ok |-> FALSE, classes |-> <<>>]
  /\ schemas' = <<>>
  /\ i' = 1
  /\ UNCHANGED <<unit_vars, build, pending, dirs, php_files, doc_files>>

Next ==
  \/ Parse
  \/ ParseError
  \/ MkdirPhp
  \/ WritePhp
  \/ MkdirDocs
  \/ WriteDoc
  \/ SkipDoc
  \/ Finish
  \/ Rerun
  \/ RerunEdited

Spec == Init /\ [][Next]_vars

(***************************************************************************)
(* Single calls of the generator's functions: the arguments are drawn from *)
(* bounded sets, the call returns, and main() is not running.              *)
(***************************************************************************)
\* main() has not been started
MainIdle ==
  /\ source = [syntax_ok |-> TRUE, classes |-> <<>>]
  /\ run = 1
  /\ pc = "none"
  /\ schemas = <<>>
  /\ i = 1
  /\ dirs = {}
  /\ php_files = NoFiles
  /\ doc_files = NoFiles

\* the longest field name php_name is called on
MaxNameLen == 4

\* the characters of those names: a lower-case letter, an upper-case letter, the underscore
NameChars == {"a", "B", "_"}

RECURSIVE NamesOfLen(_)
NamesOfLen(n) ==
  IF n = 0 THEN {<<>>}
  ELSE {Append(w, ch) : w \in NamesOfLen(n - 1), ch \in NameChars}

FieldNames == UNION {NamesOfLen(n) : n \in 1..MaxNameLen}

InitNames ==
  /\ MainIdle
  /\ build = NoBuild
  /\ pending = NoPending
  /\ call \in {[fn |-> "php_name", field |-> FieldInfo(n, s_str, <<>>, None, <<>>)] :
                 n \in FieldNames}
  /\ ret = NotReturned

\* field.php_name is read
CallPhpName ==
  /\ call.fn = "php_name"
  /\ ~ret.done
  /\ ret' = [done |-> TRUE, value |-> php_name(call.field)]
  /\ UNCHANGED <<main_vars, call, build, pending>>

NextNames == CallPhpName

SpecNames == InitNames /\ [][NextNames]_vars

\* the most records a registry _get_type_link is called with holds
MaxRegistry == 2

\* the record names of those registries: two main records, inline sub-types of two
\* parents, and a record of neither table
LinkNames == {s_CommentScore, s_SpamDetectionResult, s_LogicalFallacy, s_OnTopicResult, s_Point}

\* the registries of n records
RECURSIVE RegistriesOfLen(_)
RegistriesOfLen(n) ==
  IF n = 0 THEN {<<>>}
  ELSE {Append(reg, SchemaInfo(name, s_doc, <<>>)) :
          reg \in RegistriesOfLen(n - 1), name \in LinkNames}

Registries == UNION {RegistriesOfLen(n) : n \in 0..MaxRegistry}

\* the type names asked about, and the records whose document is being rendered
LinkTypes == LinkNames \cup {s_int, s_Widget}
LinkPages == {s_CommentScore, s_CommentRelevanceResult, s_SpamDetectionResult, s_Box}

InitLink ==
  /\ MainIdle
  /\ build = NoBuild
  /\ pending = NoPending
  /\ call \in [fn : {"_get_type_link"}, schemas : Registries, type_name : LinkTypes,
                current_schema : LinkPages]
  /\ ret = NotReturned

\* md_gen._get_type_link(type_name, current_schema) is called
CallGetTypeLink ==
  /\ call.fn = "_get_type_link"
  /\ ~ret.done
  /\ ret' = [done |-> TRUE,
             value |-> _get_type_link(call.schemas, call.type_name, call.current_schema)]
  /\ UNCHANGED <<main_vars, call, build, pending>>

NextLink == CallGetTypeLink

SpecLink == InitLink /\ [][NextLink]_vars

(***************************************************************************)
(* The documentation-build command: main() of build.py and of              *)
(* docs_build.py, which differ in the destination folder and in the text   *)
(* of index.md.  build is a record:                                        *)
(*   pc          where main() is: main, generate, copy, mkdest, copytree,  *)
(*               index, exit                                               *)
(*   script      which of the two scripts runs                             *)
(*   respectify  the directory 'respectify' exists beside the script       *)
(*   build_dir   docs/_build: absent, empty (no html folder in it), html   *)
(*   sphinx      how sphinx-build ended: none (not run), ok, failed        *)
(*               (CalledProcessError), not_found (FileNotFoundError)       *)
(*   dest        the destination folder: exists, and what its html folder  *)
(*               and its index.md hold (none, stale, partial, generated;   *)
(*               none, stale, or the script that wrote it)                 *)
(*   status      <<>> while main() runs, <<n>> once it has exited with n   *)
(***************************************************************************)
NoDest == [exists |-> FALSE, html |-> "none", index |-> "none"]

\* the destination folder as a run may find it
Dests ==
  {NoDest} \cup
  {[exists |-> TRUE, html |-> h, index |-> x] : h \in {"none", "stale"}, x \in {"none", "stale"}}

\* sys.exit(code), or the end of main() with code 0, or an uncaught exception with code 1
Exit(b, code) == [b EXCEPT !.pc = "exit", !.status = <<code>>]

InitBuild ==
  /\ MainIdle
  /\ call = NoCall
  /\ ret = NotReturned
  /\ pending = NoPending
  /\ build \in [pc : {"main"}, script : {"build", "docs_build"}, respectify : BOOLEAN,
                 build_dir : {"absent", "empty", "html"}, sphinx : {"none"},
                 dest : Dests, status : {<<>>}]

\* main(): the directory 'respectify' is missing
WrongDirectory ==
  /\ build.pc = "main"
  /\ ~build.respectify
  /\ build' = Exit(build, 1)
  /\ UNCHANGED <<main_vars, unit_vars, pending>>

\* run_sphinx(): the build directory of the last build is removed
CleanBuild ==
  /\ build.pc = "main"
  /\ build.respectify
  /\ build' = [build EXCEPT !.pc = "generate", !.build_dir = "absent"]
  /\ UNCHANGED <<main_vars, unit_vars, pending>>

\* run_sphinx(): shutil.rmtree raises an error that run_sphinx does not catch
CleanBuildError ==
  /\ build.pc = "main"
  /\ build.respectify
  /\ build.build_dir # "absent"
  /\ build' = Exit(build, 1)
  /\ UNCHANGED <<main_vars, unit_vars, pending>>

\* run_sphinx(): sphinx-build ends with status 0; run_sphinx returns True
SphinxOk ==
  /\ build.pc = "generate"
  /\ \E out \in {"html", "empty", "absent"} :
       build' = [build EXCEPT !.pc = "copy", !.sphinx = "ok", !.build_dir = out]
  /\ UNCHANGED <<main_vars, unit_vars, pending>>

\* SphinxFails with the value run_sphinx returns ignored by main()
SphinxFails_ignored ==
  /\ build.pc = "generate"
  /\ \/ \E out \in {"html", "empty", "absent"} :
          build' = [build EXCEPT !.pc = "copy", !.sphinx = "failed", !.build_dir = out]
     \/ build' = [build EXCEPT !.pc = "copy", !.sphinx = "not_found"]
  /\ UNCHANGED <<main_vars, unit_vars, pending>>

\* run_sphinx(): sphinx-build ends with another status, having written some or no
\* output, or is not installed; run_sphinx returns False and main() exits with 1
SphinxFails ==
  /\ build.pc = "generate"
  /\ \/ \E out \in {"html", "empty", "absent"} :
          build' = Exit([build EXCEPT !.sphinx = "failed", !.build_dir = out], 1)
     \/ build' = Exit([build EXCEPT !.sphinx = "not_found"], 1)
  /\ UNCHANGED <<main_vars, unit_vars, pending>>

\* copy_docs(): src_folder does not exist; copy_docs returns False and main() exits with 1
SourceMissing ==
  /\ build.pc = "copy"
  /\ build.build_dir # "html"
  /\ build' = Exit(build, 1)
  /\ UNCHANGED <<main_vars, unit_vars, pending>>

\* copy_docs(): the existing destination is removed
RemoveDest ==
  /\ build.pc = "copy"
  /\ build.build_dir = "html"
  /\ build' = [build EXCEPT !.pc = "mkdest", !.dest = NoDest]
  /\ UNCHANGED <<main_vars, unit_vars, pending>>

\* copy_docs(): dest_folder.mkdir
MakeDest ==
  /\ build.pc = "mkdest"
  /\ build' = [build EXCEPT !.pc = "copytree", !.dest.exists = TRUE]
  /\ UNCHANGED <<main_vars, unit_vars, pending>>

\* copy_docs(): shutil.copytree of the generated html folder
CopyTree ==
  /\ build.pc = "copytree"
  /\ build' = [build EXCEPT !.pc = "index", !.dest.html = "generated"]
  /\ UNCHANGED <<main_vars, unit_vars, pending>>

\* copy_docs(): index.md is written; copy_docs returns True and main() ends
WriteIndex ==
  /\ build.pc = "index"
  /\ build' = Exit([build EXCEPT !.dest.index = build.script], 0)
  /\ UNCHANGED <<main_vars, unit_vars, pending>>

\* copy_docs(): rmtree, mkdir, copytree or write_text raises; the except clause
\* returns False and main() exits with 1
CopyError ==
  /\ \/ build.pc = "copy" /\ build.build_dir = "html" /\ build.dest.exists
     \/ build.pc \in {"mkdest", "copytree", "index"}
  /\ \/ build' = Exit(build, 1)
     \/ /\ build.pc = "copytree"
        /\ build' = Exit([build EXCEPT !.dest.html = "partial"], 1)
  /\ UNCHANGED <<main_vars, unit_vars, pending>>

NextBuild ==
  \/ WrongDirectory
  \/ CleanBuild
  \/ CleanBuildError
  \/ SphinxOk
  \/ SphinxFails
  \/ SourceMissing
  \/ RemoveDest
  \/ MakeDest
  \/ CopyTree
  \/ WriteIndex
  \/ CopyError

SpecBuild == InitBuild /\ [][NextBuild]_vars

(***************************************************************************)
(* The two loops of main() with the order of their passes left open: the   *)
(* source has been parsed and both output directories exist; each pass is  *)
(* the body of one loop for one record of the list, and the passes are     *)
(* made in any order, those of the two loops interleaved.                  *)
(***************************************************************************)
\* the body of a second declaration of Point
OtherPointBody == <<AnnAssign(s_name, s_str)>>

\* a class body with one attribute of the given type
OneAttribute(annotation) == <<AnnAssign(s_corner, annotation)>>

\* schemas.py with several records; in the last three a class name is declared twice
OrderSources ==
  {[syntax_ok |-> TRUE, classes |-> cs] :
     cs \in {<<ClassDef(s_CommentScore, <<"BaseModel">>, OneAttribute(ListOf(s_LogicalFallacy))),
               PointClass, LogicalFallacyClass>>,
             <<ClassDef(s_SpamDetectionResult, <<"BaseModel">>, OneAttribute(s_CommentScore)),
               ClassDef(s_CommentScore, <<"BaseModel">>, OneAttribute(OptionalOf(s_Point))),
               PointClass>>,
             <<ClassDef(s_CommentScore, <<"BaseModel">>, OneAttribute(OptionalOf(s_Point))),
               ClassDef(s_Point, <<"BaseModel">>, OtherPointBody), PointClass>>,
             <<ClassDef(s_SpamDetectionResult, <<"BaseModel">>, OneAttribute(s_int)),
               ClassDef(s_SpamDetectionResult, <<"BaseModel">>, OneAttribute(s_str))>>,
             <<PointClass, ClassDef(s_Box, <<"BaseModel">>, OneAttribute(s_Point)),
               PointClass>>}}

\* main() after parse_schemas and the two mkdir calls
InitOrder ==
  /\ source \in OrderSources
  /\ run = 1
  /\ pc = "emit"
  /\ schemas = parse_schemas(source)
  /\ i = 1
  /\ dirs = {"php", "docs"}
  /\ php_files = NoFiles
  /\ doc_files = NoFiles
  /\ call = NoCall
  /\ ret = NotReturned
  /\ build = NoBuild
  /\ pending = [php |-> DOMAIN schemas, docs |-> DOMAIN schemas]

\* the body of the loop that writes the PHP classes, for one record
EmitPhp ==
  /\ pc = "emit"
  /\ \E k \in pending.php :
       /\ php_files' = write_file(php_files, schemas[k].name, generate_class(schemas, schemas[k]))
       /\ pending' = [pending EXCEPT !.php = @ \ {k}]
  /\ UNCHANGED <<unit_vars, build, source, run, pc, schemas, i, dirs, doc_files>>

\* the body of the loop that writes the documents, for one main schema
EmitDoc ==
  /\ pc = "emit"
  /\ \E k \in pending.docs :
       /\ schemas[k].name \in Range(doc_schemas)
       /\ doc_files' = write_file(doc_files, schemas[k].name, generate_doc(schemas, schemas[k]))
       /\ pending' = [pending EXCEPT !.docs = @ \ {k}]
  /\ UNCHANGED <<unit_vars, build, source, run, pc, schemas, i, dirs, php_files>>

\* the body of the loop that writes the documents, for a record that is not a main schema
PassDoc ==
  /\ pc = "emit"
  /\ \E k \in pending.docs :
       /\ schemas[k].name \notin Range(doc_schemas)
       /\ pending' = [pending EXCEPT !.docs = @ \ {k}]
  /\ UNCHANGED <<unit_vars, build, source, run, pc, schemas, i, dirs, php_files, doc_files>>

\* both loops have made all their passes
EmitDone ==
  /\ pc = "emit"
  /\ pending = NoPending
  /\ pc' = "done"
  /\ UNCHANGED <<unit_vars, build, pending, source, run, schemas, i, dirs, php_files, doc_files>>

NextOrder ==
  \/ EmitPhp
  \/ EmitDoc
  \/ PassDoc
  \/ EmitDone

SpecOrder == InitOrder /\ [][NextOrder]_vars

(***************************************************************************)
(* main() run once, to its end, on sources whose records refer to          *)
(* themselves or to each other in a cycle.  main() is a sequential program *)
(* that is not interrupted: a step that can be taken is taken.             *)
(***************************************************************************)
WrapKinds == {"direct", "List", "Optional"}

\* the type text that refers to t directly or through List / Optional
Wrap(w, t) == IF w = "List" THEN ListOf(t) ELSE IF w = "Optional" THEN OptionalOf(t) ELSE t

CycleNames == {s_CommentScore, s_SpamDetectionResult, s_CommentRelevanceResult}

\* a record that refers to itself
SelfCycles ==
  {<<ClassDef(n, <<"BaseModel">>, OneAttribute(Wrap(w, n)))>> :
     n \in CycleNames, w \in WrapKinds}

\* two records that refer to each other
MutualCycles ==
  {<<ClassDef(n, <<"BaseModel">>, OneAttribute(Wrap(w, s_LogicalFallacy))),
     ClassDef(s_LogicalFallacy, <<"BaseModel">>,
              <<AnnAssign(s_name, s_str), AnnAssign(s_corner, Wrap(v, n))>>)>> :
     n \in CycleNames, w \in WrapKinds, v \in WrapKinds}

\* three records that refer to each other in a ring
RingCycles ==
  {<<ClassDef(n, <<"BaseModel">>, OneAttribute(Wrap(w, s_Box))),
     ClassDef(s_Box, <<"BaseModel">>, OneAttribute(ListOf(s_LogicalFallacy))),
     ClassDef(s_LogicalFallacy, <<"BaseModel">>, OneAttribute(Wrap(w, n)))>> :
     n \in CycleNames, w \in WrapKinds}

CycleSources ==
  {[syntax_ok |-> TRUE, classes |-> cs] : cs \in SelfCycles \cup MutualCycles \cup RingCycles}

InitCycle ==
  /\ source \in CycleSources
  /\ run = 1
  /\ pc = "start"
  /\ schemas = <<>>
  /\ i = 1
  /\ dirs = {}
  /\ php_files = NoFiles
  /\ doc_files = NoFiles
  /\ call = NoCall
  /\ ret = NotReturned
  /\ build = NoBuild
  /\ pending = NoPending

NextCycle ==
  \/ Parse
  \/ MkdirPhp
  \/ WritePhp
  \/ MkdirDocs
  \/ WriteDoc
  \/ SkipDoc
  \/ Finish

\* the control flow of main(): the conditions of the steps of NextCycle and what they do to
\* pc and i
Advance ==
  \/ pc = "start" /\ source.syntax_ok /\ pc' = "mkphp" /\ i' = i
  \/ pc = "mkphp" /\ pc' = "php" /\ i' = 1
  \/ pc = "php" /\ i <= Len(schemas) /\ pc' = pc /\ i' = i + 1
  \/ pc = "php" /\ i > Len(schemas) /\ pc' = "docs" /\ i' = 1
  \/ pc = "docs" /\ i <= Len(schemas) /\ pc' = pc /\ i' = i + 1
  \/ pc = "docs" /\ i > Len(schemas) /\ pc' = "done" /\ i' = i

\* main() goes on as long as its control flow has a step to take
SpecCycle == InitCycle /\ [][NextCycle]_vars /\ WF_<<pc, i>>(Advance)

(***************************************************************************)
(* Reading the emitted files.                                              *)
(***************************************************************************)
\* the templates of the constructor's assignment statements
AssignKinds ==
  {"assign_array_map", "assign_array", "assign_default", "assign_floatval",
   "assign_isset_new", "assign_or_null", "assign_new", "assign_raw"}

\* the templates of the wire view of a field
JsonKinds ==
  {"json_list_of_objects", "json_object_or_null", "json_object", "json_value",
   "json_value_or_null"}

\* the templates of the Python view of a field
PyKinds == {"py_list_link", "py_optional_link", "py_direct_link", "py_plain"}

PropLines(lines) == SelectSeq(lines, LAMBDA l : l.k = "prop")
AssignLines(lines) == SelectSeq(lines, LAMBDA l : l.k \in AssignKinds)

\* the assignment statements of a class file whose target is the property of field
AssignsOf(lines, field) == SelectSeq(AssignLines(lines), LAMBDA l : l.a = php_name(field))

\* the lines of a document after '## Fields' and before '## Sub-types'
FieldsPart(lines) ==
  LET from == CHOOSE p \in DOMAIN lines : lines[p].k = "h2" /\ lines[p].a = s_Fields
      subs == {p \in DOMAIN lines : lines[p].k = "h2" /\ lines[p].a = s_SubTypes}
      to == IF subs = {} THEN Len(lines) + 1 ELSE CHOOSE p \in subs : TRUE
  IN SubSeq(lines, from + 1, to - 1)

\* the position of the j-th '###' heading of part
HeadingAt(part, j) ==
  CHOOSE p \in DOMAIN part :
    /\ part[p].k = "h3"
    /\ Cardinality({q \in 1..p : part[q].k = "h3"}) = j

\* the j-th '###' section of part, of n
SectionOf(part, j, n) ==
  SubSeq(part, HeadingAt(part, j), IF j < n THEN HeadingAt(part, j + 1) - 1 ELSE Len(part))

\* the wire views and the Python views of the field sections of a document, in order
JsonViews(lines) == SelectSeq(FieldsPart(lines), LAMBDA l : l.k \in JsonKinds)
PyViews(lines) == SelectSeq(FieldsPart(lines), LAMBDA l : l.k \in PyKinds)

\* the record name a type hint refers to: the one it wraps, else the hint itself
ReferredType(type_hint) ==
  IF _get_inner_type(type_hint) # None THEN _get_inner_type(type_hint) ELSE type_hint

\* every character of s is an identifier character
IsIdentifier(s) == s # <<>> /\ \A k \in DOMAIN s : s[k] \in WordChars

Primitives == {s_str, s_int, s_float, s_bool, s_UUID}

\* the records of the registry whose class file, or document, has been written
WrittenPhp == {k \in DOMAIN schemas : schemas[k].name \in DOMAIN php_files}
WrittenDocs == {k \in DOMAIN schemas : schemas[k].name \in DOMAIN doc_files}

(***************************************************************************)
(* C1: for every record with N declared fields, whatever their type text,  *)
(* the emitted class holds exactly N property declarations and its         *)
(* constructor exactly N assignment statements, one per field, both in     *)
(* declaration order.                                                      *)
(***************************************************************************)
C1_OnePropertyAndOneAssignmentPerField ==
  \A k \in WrittenPhp :
    LET lines == php_files[schemas[k].name]
        fields == schemas[k].fields
    IN /\ Len(PropLines(lines)) = Len(fields)
       /\ \A j \in DOMAIN fields : PropLines(lines)[j].b = php_name(fields[j])
       /\ Len(AssignLines(lines)) = Len(fields)
       /\ \A j \in DOMAIN fields : AssignLines(lines)[j].a = php_name(fields[j])

(***************************************************************************)
(* C2: every written document holds, under '## Fields', exactly one        *)
(* '### <field name>' section per declared field, in declaration order,    *)
(* and each section holds exactly one tab group, keyed 'language', with    *)
(* exactly the three tab items python, php, rest.                          *)
(***************************************************************************)
C2_OneSectionOfThreeViewsPerField ==
  \A k \in WrittenDocs :
    LET part == FieldsPart(doc_files[schemas[k].name])
        fields == schemas[k].fields
        heads == SelectSeq(part, LAMBDA l : l.k = "h3")
    IN /\ Len(heads) = Len(fields)
       /\ \A j \in DOMAIN fields :
            LET sec == SectionOf(part, j, Len(heads))
                groups == SelectSeq(sec, LAMBDA l : l.k = "tabs_open")
                items == SelectSeq(sec, LAMBDA l : l.k = "tabitem_open")
            IN /\ heads[j].a = fields[j].name
               /\ Len(groups) = 1
               /\ groups[1].a = s_language
               /\ Len(SelectSeq(sec, LAMBDA l : l.k = "tabs_close")) = 1
               /\ [m \in DOMAIN items |-> items[m].a] = <<s_python, s_php, s_rest>>
               /\ Len(SelectSeq(sec, LAMBDA l : l.k \in PyKinds)) = 1
               /\ Len(SelectSeq(sec, LAMBDA l : l.k \in JsonKinds)) = 1

\* a document of a record with two fields and inline sub-type sections has been written
C2_Witness ==
  \E k \in WrittenDocs :
    /\ Len(schemas[k].fields) >= 2
    /\ \E p \in DOMAIN doc_files[schemas[k].name] :
         /\ doc_files[schemas[k].name][p].k = "h3"
         /\ doc_files[schemas[k].name][p].a = s_LogicalFallacy

(***************************************************************************)
(* C3: a run of main() on the unchanged source after a completed run       *)
(* leaves every output file, and the set of output files, as they were:    *)
(* no step of a second or later run changes php_files or doc_files.        *)
(***************************************************************************)
C3_RerunIsByteIdentical ==
  [][run >= 2 => (php_files' = php_files /\ doc_files' = doc_files)]_vars

\* the second run has rewritten class files and documents and has ended
C3_Witness ==
  /\ run = 2
  /\ pc = "done"
  /\ \E k \in WrittenPhp : Len(schemas[k].fields) >= 2
  /\ WrittenDocs # {}

(***************************************************************************)
(* C4: in every written document, the wire view of a field typed           *)
(* Optional[R], R a record of the registry, shows the example object of R, *)
(* one member per field of R in R's declaration order, not null.           *)
(***************************************************************************)
C4_OptionalRecordShowsExampleObject ==
  \A k \in WrittenDocs :
    LET lines == doc_files[schemas[k].name]
        fields == schemas[k].fields
    IN \A j \in DOMAIN fields : \A r \in DOMAIN schemas :
         fields[j].type_hint = OptionalOf(schemas[r].name) =>
           LET view == JsonViews(lines)[j]
               R == SchemaMapGet(schemas, schemas[r].name)
           IN /\ view.k = "json_object_or_null"
              /\ view.a = fields[j].name
              /\ Len(view.d) = Len(R.fields)
              /\ \A m \in DOMAIN R.fields : view.d[m].k = R.fields[m].name

\* a document with a field typed Optional[Point], Point in the registry, has been written
C4_Witness ==
  \E k \in WrittenDocs : \E j \in DOMAIN schemas[k].fields :
    /\ schemas[k].fields[j].type_hint = OptionalOf(s_Point)
    /\ InSchemaMap(schemas, s_Point)
    /\ JsonViews(doc_files[schemas[k].name])[j].d # <<>>

\* the X of a type hint List[X] with X an identifier, None for any other hint
ListArg(type_hint) ==
  IF /\ StartsWith(type_hint, s_ListOpen)
     /\ type_hint[Len(type_hint)] = "]"
     /\ IsIdentifier(SubSeq(type_hint, Len(s_ListOpen) + 1, Len(type_hint) - 1))
  THEN SubSeq(type_hint, Len(s_ListOpen) + 1, Len(type_hint) - 1)
  ELSE None

(***************************************************************************)
(* C5: in every written document, the wire view of a field typed List[R],  *)
(* R neither a record of the registry nor a primitive name, is the empty   *)
(* array [].                                                               *)
(***************************************************************************)
C5_ListOfUnknownShowsEmptyArray ==
  \A k \in WrittenDocs :
    LET lines == doc_files[schemas[k].name]
        fields == schemas[k].fields
    IN \A j \in DOMAIN fields :
         LET R == ListArg(fields[j].type_hint)
         IN (R # None /\ R \notin Primitives /\ ~InSchemaMap(schemas, R)) =>
              /\ JsonViews(lines)[j].k = "json_value"
              /\ JsonViews(lines)[j].a = fields[j].name
              /\ JsonViews(lines)[j].b = ex_empty_list

\* a document with a field typed List[Widget] has been written
C5_Witness ==
  \E k \in WrittenDocs : \E j \in DOMAIN schemas[k].fields :
    /\ schemas[k].fields[j].type_hint = ListOf(s_Widget)
    /\ ~InSchemaMap(schemas, s_Widget)

\* P lists T as an inline sub-type
IsInlineSubtypeOf(T, P) == HasInlineSubtypes(P) /\ T \in Range(InlineSubtypesOf(P))

(***************************************************************************)
(* C6, as claimed: in the document of P, a type T that the Inline-Subtype  *)
(* Table lists under P is always linked by an in-page anchor, whether or   *)
(* not T is in the registry.                                               *)
(***************************************************************************)
C6_InlineSubtypeAlwaysAnchored ==
  \A k \in WrittenDocs :
    LET lines == doc_files[schemas[k].name]
        fields == schemas[k].fields
    IN \A j \in DOMAIN fields :
         IsInlineSubtypeOf(ReferredType(fields[j].type_hint), schemas[k].name) =>
           StartsWith(PyViews(lines)[j].c, <<"#">>)

(***************************************************************************)
(* C6, amended: a type T listed under P that is in the registry resolves,  *)
(* for the document of P, to the in-page anchor '#' + lower(T), never to a *)
(* page link or to no link; a listed type that is not in the registry      *)
(* resolves to no link.  This holds of _get_type_link for every entry of   *)
(* the table and of the links the written documents carry.                 *)
(***************************************************************************)
C6_RegisteredInlineSubtypeAnchored ==
  /\ \A p \in DOMAIN INLINE_SUBTYPES : \A T \in Range(INLINE_SUBTYPES[p][2]) :
       _get_type_link(schemas, T, INLINE_SUBTYPES[p][1]) =
         IF InSchemaMap(schemas, T) THEN <<"#">> \o Lower(T) ELSE None
  /\ \A k \in WrittenDocs :
       LET lines == doc_files[schemas[k].name]
           fields == schemas[k].fields
       IN \A j \in DOMAIN fields :
            LET T == ReferredType(fields[j].type_hint)
            IN IsInlineSubtypeOf(T, schemas[k].name) =>
                 /\ PyViews(lines)[j].c =
                      IF InSchemaMap(schemas, T) THEN <<"#">> \o Lower(T) ELSE None
                 /\ JsonViews(lines)[j].c = PyViews(lines)[j].c

\* the document of CommentScore links LogicalFallacy, which is in the registry
C6_Witness ==
  \E k \in WrittenDocs : \E j \in DOMAIN schemas[k].fields :
    /\ schemas[k].name = s_CommentScore
    /\ ReferredType(schemas[k].fields[j].type_hint) = s_LogicalFallacy
    /\ InSchemaMap(schemas, s_LogicalFallacy)
    /\ StartsWith(PyViews(doc_files[s_CommentScore])[j].c, <<"#">>)

(***************************************************************************)
(* C7: a self-reference never produces a cross-page link: in the document  *)
(* of S, a field that refers to S itself is never linked './...'.          *)
(***************************************************************************)
C7_SelfReferenceNeverPageLink ==
  \A k \in WrittenDocs :
    LET lines == doc_files[schemas[k].name]
        fields == schemas[k].fields
    IN \A j \in DOMAIN fields :
         ReferredType(fields[j].type_hint) = schemas[k].name =>
           /\ ~StartsWith(PyViews(lines)[j].c, <<".", "/">>)
           /\ ~StartsWith(_get_type_link(schemas, schemas[k].name, schemas[k].name), <<".", "/">>)

(***************************************************************************)
(* C8: the PHP type declared for a field that refers directly to a name    *)
(* (an identifier that is not a primitive name) is exactly that name,      *)
(* whether the name is a record of the registry or not.                    *)
(***************************************************************************)
C8_DirectReferenceKeepsItsName ==
  \A k \in WrittenPhp :
    LET lines == php_files[schemas[k].name]
        fields == schemas[k].fields
    IN \A j \in DOMAIN fields :
         (IsIdentifier(fields[j].type_hint) /\ fields[j].type_hint \notin Primitives) =>
           /\ php_type(fields[j]) = fields[j].type_hint
           /\ PropLines(lines)[j].a = fields[j].type_hint

(***************************************************************************)
(* C9: for a field that refers directly to a record R of the registry, the *)
(* constructor assigns  new R($data[key])  under the source key, with no   *)
(* default and no null fallback, whatever the name R.                      *)
(***************************************************************************)
C9_RequiredRecordAlwaysConstructed ==
  \A k \in WrittenPhp :
    LET lines == php_files[schemas[k].name]
        fields == schemas[k].fields
    IN \A j \in DOMAIN fields :
         InSchemaMap(schemas, fields[j].type_hint) =>
           /\ Len(AssignsOf(lines, fields[j])) = 1
           /\ AssignsOf(lines, fields[j])[1].k = "assign_new"
           /\ AssignsOf(lines, fields[j])[1].b = fields[j].type_hint
           /\ AssignsOf(lines, fields[j])[1].c = fields[j].name

(***************************************************************************)
(* C10: for a field typed Optional[R], R a record of the registry, the     *)
(* constructor assigns  isset($data[key]) ? new R($data[key]) : null ; for *)
(* a field typed List[R] it assigns the array_map of R's constructor over  *)
(* $data[key] ?? [] ; key is the source field name in both.                *)
(***************************************************************************)
C10_WrappedRecordIsHydrated ==
  \A k \in WrittenPhp :
    LET lines == php_files[schemas[k].name]
        fields == schemas[k].fields
    IN \A j \in DOMAIN fields : \A r \in DOMAIN schemas :
         LET R == schemas[r].name
             assigns == AssignsOf(lines, fields[j])
         IN /\ fields[j].type_hint = OptionalOf(R) =>
                 /\ Len(assigns) = 1
                 /\ assigns[1].k = "assign_isset_new"
                 /\ assigns[1].b = R
                 /\ assigns[1].c = fields[j].name
            /\ fields[j].type_hint = ListOf(R) =>
                 /\ Len(assigns) = 1
                 /\ assigns[1].k = "assign_array_map"
                 /\ assigns[1].b = R
                 /\ assigns[1].c = fields[j].name

\* a class with an Optional[Point] field and a List[LogicalFallacy] field has been written
C10_Witness ==
  \E k \in WrittenPhp :
    /\ InSchemaMap(schemas, s_Point) /\ InSchemaMap(schemas, s_LogicalFallacy)
    /\ \E j \in DOMAIN schemas[k].fields :
         /\ schemas[k].fields[j].type_hint = OptionalOf(s_Point)
         /\ AssignsOf(php_files[schemas[k].name], schemas[k].fields[j])[1].k = "assign_isset_new"
    /\ \E j \in DOMAIN schemas[k].fields :
         /\ schemas[k].fields[j].type_hint = ListOf(s_LogicalFallacy)
         /\ AssignsOf(php_files[schemas[k].name], schemas[k].fields[j])[1].k = "assign_array_map"

SnakeToCamel(name) ==
  LET parts == Split(name, "_")
  IN Lower(parts[1]) \o ConcatAll([k \in 1..(Len(parts) - 1) |-> Capitalize(parts[k + 1])])

(***************************************************************************)
(* C12: for every field name, php_name is the snake-to-camel conversion of *)
(* the name: the first underscore-separated segment in lower case, every   *)
(* later segment capitalized, no underscore left.                          *)
(***************************************************************************)
C12_PhpNameIsSnakeToCamel ==
  (call.fn = "php_name" /\ ret.done) =>
    /\ ret.value = SnakeToCamel(call.field.name)
    /\ "_" \notin Range(ret.value)

(***************************************************************************)
(* C13: a run that aborts on a parse error has created and changed no      *)
(* output: the step that aborts is the first step of the run and leaves    *)
(* the directories and files as they were, and every step that creates a   *)
(* directory or writes a file is taken after parse_schemas has returned    *)
(* the registry of the whole source.                                       *)
(***************************************************************************)
C13_AbortLeavesNoArtifact ==
  [][/\ pc' = "aborted" =>
          /\ pc = "start"
          /\ dirs' = dirs /\ php_files' = php_files /\ doc_files' = doc_files
     /\ (dirs' # dirs \/ php_files' # php_files \/ doc_files' # doc_files) =>
          /\ pc \in {"mkphp", "php", "docs"}
          /\ source.syntax_ok
          /\ schemas = parse_schemas(source)]_vars

\* a run has aborted on the edited source while the files of the run before it exist
C13_Witness ==
  /\ pc = "aborted"
  /\ run = 2
  /\ dirs = {"php", "docs"}
  /\ php_files # NoFiles
  /\ doc_files # NoFiles

\* the generator failed, or a directory the command expects was missing
BuildFailed(b) ==
  \/ ~b.respectify
  \/ b.sphinx \in {"failed", "not_found"}
  \/ b.sphinx = "ok" /\ b.build_dir # "html"

(***************************************************************************)
(* C14: a run of the documentation-build command in which the generator    *)
(* failed or an expected source directory was missing exits with a status  *)
(* other than 0, and no step of such a run changes the destination: the    *)
(* destination changes only after the generator ended with success and the *)
(* generated html folder was found to exist.                               *)
(***************************************************************************)
C14_FailedBuildLeavesDestination ==
  [][/\ (build'.pc = "exit" /\ BuildFailed(build')) => build'.status # <<0>>
     /\ BuildFailed(build') => build'.dest = build.dest
     /\ build'.dest # build.dest =>
          /\ build.respectify
          /\ build.sphinx = "ok"
          /\ build.build_dir = "html"]_vars

\* the generator failed after writing output, the command has exited with 1 and the
\* stale destination is as it was
C14_Witness ==
  /\ build.pc = "exit"
  /\ build.sphinx = "failed"
  /\ build.build_dir = "html"
  /\ build.status = <<1>>
  /\ build.dest = [exists |-> TRUE, html |-> "stale", index |-> "stale"]

\* the link the claimed precedence gives a type that is not an inline sub-type of the
\* current record: its own page for a main record, else the anchor on its parent's page
LinkByPrecedence(T) ==
  IF T \in Range(MAIN_SCHEMAS) THEN <<".", "/">> \o T
  ELSE IF HasSubtypeParent(T)
  THEN <<".", "/">> \o subtype_parent(T) \o <<"#">> \o Lower(T)
  ELSE None

(***************************************************************************)
(* C15, as claimed: for a type T that is not an inline sub-type of the     *)
(* current record, _get_type_link returns T's own page when T is a main    *)
(* record name, else the anchor on its parent's page when T is an inline   *)
(* sub-type of another record, else no link, whether or not T is in the    *)
(* registry.                                                               *)
(***************************************************************************)
C15_LinkPrecedenceForEveryType ==
  (/\ call.fn = "_get_type_link"
   /\ ret.done
   /\ ~IsInlineSubtypeOf(call.type_name, call.current_schema)) =>
     ret.value = LinkByPrecedence(call.type_name)

(***************************************************************************)
(* C15, amended: the precedence holds for every T that is in the registry; *)
(* for a T that is not in the registry _get_type_link returns no link,     *)
(* main record name and inline sub-type alike.                             *)
(***************************************************************************)
C15_LinkPrecedenceForRegisteredType ==
  (/\ call.fn = "_get_type_link"
   /\ ret.done
   /\ ~IsInlineSubtypeOf(call.type_name, call.current_schema)) =>
     ret.value = IF InSchemaMap(call.schemas, call.type_name)
                 THEN LinkByPrecedence(call.type_name)
                 ELSE None

\* the link of LogicalFallacy, in the registry, was asked for the page of
\* SpamDetectionResult and is the anchor on the page of CommentScore
C15_Witness ==
  /\ call.fn = "_get_type_link"
  /\ ret.done
  /\ call.type_name = s_LogicalFallacy
  /\ call.current_schema = s_SpamDetectionResult
  /\ InSchemaMap(call.schemas, s_LogicalFallacy)
  /\ ret.value = <<".", "/">> \o s_CommentScore \o <<"#">> \o Lower(s_LogicalFallacy)

\* the literal default the claim gives a scalar type
ScalarDefault(type_hint) ==
  IF type_hint \in {s_str, s_UUID} THEN php_empty_string
  ELSE IF type_hint = s_int THEN php_zero
  ELSE IF type_hint = s_float THEN php_zero_float
  ELSE php_false

(***************************************************************************)
(* C16: in every written class, the constructor gives a scalar field (str, *)
(* UUID, int, float, bool) the literal default of its type when the key is *)
(* absent ('', '', 0, 0.0, false), and assigns every floating-point field, *)
(* float and Optional[float] alike, through floatval.                      *)
(***************************************************************************)
C16_ScalarDefaultsAndFloatCast ==
  \A k \in WrittenPhp :
    LET lines == php_files[schemas[k].name]
        fields == schemas[k].fields
    IN \A j \in DOMAIN fields :
         LET assigns == AssignsOf(lines, fields[j])
             hint == fields[j].type_hint
         IN /\ hint \in Primitives =>
                 /\ Len(assigns) = 1
                 /\ assigns[1].k \in {"assign_default", "assign_floatval"}
                 /\ assigns[1].b = ScalarDefault(hint)
                 /\ assigns[1].c = fields[j].name
            /\ hint \in {s_float, OptionalOf(s_float)} =>
                 /\ Len(assigns) = 1
                 /\ assigns[1].k = "assign_floatval"

\* the primitives the claim names as inner types of a list
ListPrimitives == {s_str, s_int, s_float, s_bool}

(***************************************************************************)
(* C17: in every written document, the wire view of a field typed List[S], *)
(* S one of str, int, float, bool, is a literal array of representative    *)
(* values, not the empty array [], and so is the example of the field as a *)
(* member of a nested example object.                                      *)
(***************************************************************************)
C17_ListOfPrimitiveShowsValues ==
  \A k \in WrittenDocs :
    LET lines == doc_files[schemas[k].name]
        fields == schemas[k].fields
    IN \A j \in DOMAIN fields : \A S \in ListPrimitives :
         fields[j].type_hint = ListOf(S) =>
           /\ JsonViews(lines)[j].k = "json_value"
           /\ JsonViews(lines)[j].a = fields[j].name
           /\ JsonViews(lines)[j].b # ex_empty_list
           /\ _get_json_field_example(schemas, fields[j]) # ex_empty_list

\* the example objects a wire view embeds
ExampleObjects(view) ==
  IF view.k = "json_list_of_objects" THEN view.d
  ELSE IF view.k \in {"json_object", "json_object_or_null"} THEN <<view.d>>
  ELSE <<>>

\* a record of the registry shown by its bare name: R, or [R, ...]
BareReferences ==
  {schemas[r].name : r \in DOMAIN schemas} \cup
  {<<"[">> \o schemas[r].name \o <<",", " ", ".", ".", ".", "]">> : r \in DOMAIN schemas}

(***************************************************************************)
(* C18: in every written document, no member of an example object that a   *)
(* wire view embeds shows a record of the registry by its bare name: a     *)
(* member that is or wraps a known record is expanded in its turn.         *)
(***************************************************************************)
C18_NestedExampleFullyExpanded ==
  \A k \in WrittenDocs :
    LET views == JsonViews(doc_files[schemas[k].name])
    IN \A j \in DOMAIN views : \A o \in DOMAIN ExampleObjects(views[j]) :
         \A m \in DOMAIN ExampleObjects(views[j])[o] :
           ExampleObjects(views[j])[o][m].v \notin BareReferences

\* the declarations of the source that list BaseModel among their bases
MarkedClasses == SelectSeq(source.classes, LAMBDA c : "BaseModel" \in Range(c.bases))

\* the annotated attributes of a class body, the configuration block left out
AnnotatedAttributes(body) ==
  SelectSeq(body, LAMBDA it : it.node = "AnnAssign" /\ it.target # s_model_config)

(***************************************************************************)
(* C19: once parse_schemas has returned, the registry holds one record for *)
(* each declaration that lists BaseModel among its bases and none for any  *)
(* other declaration, in the order of the declarations, and the fields of  *)
(* each record are the annotated attributes of its body in declaration     *)
(* order, the configuration block left out, each with its type text.       *)
(***************************************************************************)
C19_ExtractsExactlyMarkedClasses ==
  pc \in {"mkphp", "php", "docs", "done"} =>
    /\ Len(schemas) = Len(MarkedClasses)
    /\ \A k \in DOMAIN schemas :
         LET attrs == AnnotatedAttributes(MarkedClasses[k].body)
         IN /\ schemas[k].name = MarkedClasses[k].name
            /\ Len(schemas[k].fields) = Len(attrs)
            /\ \A j \in DOMAIN attrs :
                 /\ schemas[k].fields[j].name = attrs[j].target
                 /\ schemas[k].fields[j].type_hint = attrs[j].annotation

\* a source with an Enum class, a class deriving from the extracted Point, and
\* configuration blocks has been parsed, and the run has ended without an error
C19_Witness ==
  /\ pc = "done"
  /\ \E k \in DOMAIN source.classes : source.classes[k].bases = <<"Enum">>
  /\ \E k \in DOMAIN source.classes : source.classes[k].bases = <<"Point">>
  /\ \E k \in DOMAIN source.classes : \E j \in DOMAIN source.classes[k].body :
       /\ source.classes[k].body[j].node = "AnnAssign"
       /\ source.classes[k].body[j].target = s_model_config
  /\ Len(schemas) = 3
  /\ Len(source.classes) = 5

\* the type texts of the supported shapes: a name (scalar or reference), or one
\* List[...] or Optional[...] around a name
SupportedShape(type_hint) ==
  \/ IsIdentifier(type_hint)
  \/ \E open \in {s_ListOpen, s_OptionalOpen} :
       /\ StartsWith(type_hint, open)
       /\ type_hint[Len(type_hint)] = "]"
       /\ IsIdentifier(SubSeq(type_hint, Len(open) + 1, Len(type_hint) - 1))

(***************************************************************************)
(* C20: a field whose type text has no supported shape aborts extraction:  *)
(* every field of every record of the registry, hence of every record the  *)
(* emitters are given, has a type text of a supported shape.               *)
(***************************************************************************)
C20_UnsupportedTypeAbortsExtraction ==
  \A k \in DOMAIN schemas : \A j \in DOMAIN schemas[k].fields :
    SupportedShape(schemas[k].fields[j].type_hint)
\* the files the loop over schemas of lines 876-883 leaves, made in the order of the list
RECURSIVE PhpLoopFrom(_, _)
PhpLoopFrom(k, files) ==
  IF k > Len(schemas) THEN files
  ELSE PhpLoopFrom(k + 1,
                   write_file(files, schemas[k].name, generate_class(schemas, schemas[k])))

\* the files the loop over schemas of lines 889-896 leaves, made in the order of the list
RECURSIVE DocLoopFrom(_, _)
DocLoopFrom(k, files) ==
  IF k > Len(schemas) THEN files
  ELSE DocLoopFrom(k + 1,
                   IF schemas[k].name \in Range(doc_schemas)
                   THEN write_file(files, schemas[k].name, generate_doc(schemas, schemas[k]))
                   ELSE files)

(***************************************************************************)
(* C21: emission is order-insensitive: whatever the order in which the     *)
(* records of a registry are emitted and written, the passes of the two    *)
(* loops interleaved or not, the files that exist when all passes are made *)
(* and their contents are the ones the loops leave in the order of the     *)
(* list; and what is written for a record is generate_class or             *)
(* generate_doc of that record and the registry.                           *)
(***************************************************************************)
C21_EmissionIsOrderInsensitive ==
  /\ \A n \in DOMAIN php_files :
       \E k \in DOMAIN schemas :
         schemas[k].name = n /\ php_files[n] = generate_class(schemas, schemas[k])
  /\ \A n \in DOMAIN doc_files :
       \E k \in DOMAIN schemas :
         schemas[k].name = n /\ doc_files[n] = generate_doc(schemas, schemas[k])
  /\ pc = "done" =>
       /\ php_files = PhpLoopFrom(1, NoFiles)
       /\ doc_files = DocLoopFrom(1, NoFiles)

\* the templates that carry a link target (in c)
LinkKinds ==
  {"py_list_link", "py_optional_link", "py_direct_link",
   "php_list_link", "php_optional_link", "php_direct_link",
   "json_list_of_objects", "json_object_or_null", "json_object"}

\* the link targets a document carries
LinkTargets(lines) ==
  {lines[p].c : p \in {q \in DOMAIN lines : lines[q].k \in LinkKinds}} \ {None}

\* the anchors of the inline sub-type sections of a document: the lowered '###' headings
\* under '## Sub-types'
SubtypeAnchors(lines) ==
  LET subs == {p \in DOMAIN lines : lines[p].k = "h2" /\ lines[p].a = s_SubTypes}
  IN IF subs = {} THEN {}
     ELSE {Lower(lines[p].a) :
             p \in {q \in DOMAIN lines : q > (CHOOSE r \in subs : TRUE) /\ lines[q].k = "h3"}}

\* the target, found in the document of page, leads to something the run has written
LinkResolves(target, page) ==
  IF StartsWith(target, <<"#">>)
  THEN Tail(target) \in SubtypeAnchors(doc_files[page])
  ELSE IF StartsWith(target, <<".", "/">>)
  THEN LET parts == Split(SubSeq(target, 3, Len(target)), "#")
       IN /\ parts[1] \in DOMAIN doc_files
          /\ Len(parts) > 1 => parts[2] \in SubtypeAnchors(doc_files[parts[1]])
  ELSE FALSE

(***************************************************************************)
(* C22: no dangling links: when a run of main() is done, every link target *)
(* in a written document resolves to something the run generated: '#t' to  *)
(* the inline sub-type section for t of the same document, './T' to the    *)
(* written document of T, './P#t' to the written document of P and its     *)
(* section for t.                                                          *)
(***************************************************************************)
C22_NoDanglingLinks ==
  pc = "done" =>
    \A n \in DOMAIN doc_files :
      \A target \in LinkTargets(doc_files[n]) : LinkResolves(target, n)

\* the record of position k has a field that refers to a record which refers back to it
InCycle(k) ==
  \E j \in DOMAIN schemas[k].fields :
    LET R == ReferredType(schemas[k].fields[j].type_hint)
    IN /\ InSchemaMap(schemas, R)
       /\ \E m \in DOMAIN SchemaMapGet(schemas, R).fields :
            ReferredType(SchemaMapGet(schemas, R).fields[m].type_hint) = schemas[k].name

\* every example object a written document embeds for a field that refers to the record R
\* has the fields of R as its members, and a member that refers to a record in its turn
\* shows only the name of that record
ExamplesStopAtReferredRecord ==
  \A k \in WrittenDocs :
    LET lines == doc_files[schemas[k].name]
        fields == schemas[k].fields
    IN \A j \in DOMAIN fields :
         LET R == ReferredType(fields[j].type_hint)
             objs == ExampleObjects(JsonViews(lines)[j])
         IN InSchemaMap(schemas, R) =>
              /\ Len(objs) = 1
              /\ Len(objs[1]) = Len(SchemaMapGet(schemas, R).fields)
              /\ \A m \in DOMAIN objs[1] :
                   LET member == SchemaMapGet(schemas, R).fields[m]
                   IN /\ objs[1][m].k = member.name
                      /\ InSchemaMap(schemas, ReferredType(member.type_hint)) =>
                           objs[1][m].v \in BareReferences

\* main() has ended and has written every PHP class and every document of a main schema
EmissionEnded ==
  /\ pc = "done"
  /\ \A k \in DOMAIN schemas :
       /\ schemas[k].name \in DOMAIN php_files
       /\ schemas[k].name \in Range(doc_schemas) => schemas[k].name \in DOMAIN doc_files

(***************************************************************************)
(* C23: PHP and documentation emission terminate for every registry, also  *)
(* when records refer to themselves or to each other in a cycle, directly  *)
(* or through List/Optional: main() reaches its end with every file        *)
(* written, and a nested example object holds only the fields of the one   *)
(* referred record, a member that is a record in its turn being shown by   *)
(* name and not descended into.                                            *)
(***************************************************************************)
C23_EmissionTerminatesOnCycles ==
  /\ []ExamplesStopAtReferredRecord
  /\ [][Advance]_vars
  /\ <>EmissionEnded

\* main() has ended on a registry with a cycle, and the document of a record of the cycle
\* embeds the example object of the record that refers back to it
C23_Witness ==
  /\ EmissionEnded
  /\ \E k \in WrittenDocs :
       /\ InCycle(k)
       /\ \E j \in DOMAIN schemas[k].fields :
            /\ ReferredType(schemas[k].fields[j].type_hint) # schemas[k].name
            /\ InSchemaMap(schemas, ReferredType(schemas[k].fields[j].type_hint))
            /\ \E m \in DOMAIN ExampleObjects(JsonViews(doc_files[schemas[k].name])[j])[1] :
                 ExampleObjects(JsonViews(doc_files[schemas[k].name])[j])[1][m].v
                   \in {schemas[k].name, <<"[">> \o schemas[k].name \o <<",", " ", ".", ".", ".", "]">>}

=============================================================================
